---- MODULE Spec2Model ----
(***************************************************************************)
(* A model of the trading core of qtc: TradeExecutor (validation, ledger   *)
(* update, broker routing, trade and snapshot logs), OrderTracker (pending *)
(* order index, persistence, reconciliation, reload on start) and the      *)
(* orchestrator's per-tenant signal handling.                              *)
(*                                                                         *)
(* Money is integral in the model: cash, prices and quantities are         *)
(* integers.  avgCost and costBasis are Decimal results of a division and  *)
(* are kept as fixed-point integers with DecimalPlaces fractional digits,  *)
(* rounded half-even as the Decimal context does.                          *)
(*                                                                         *)
(* The data directory is writable: appends to trades.jsonl,                *)
(* portfolio snapshots and pending_orders.jsonl succeed.                   *)
(***************************************************************************)
EXTENDS Integers, Sequences, FiniteSets, Bags, TLC

\* ------------------------------------------------------------------ bounds
MaxTrades == 2        \* length of trades.jsonl explored
MaxOrders == 1        \* broker order ids handed out
MaxErrors == 2        \* length of the strategy error log explored
MaxRestarts == 1      \* process restarts explored
DecimalPlaces == 2    \* fractional digits kept of a Decimal quotient
InitialCash == 3      \* initial_cash of every team
MaxTicks == 2         \* minute ticks explored
MaxLines == 2         \* lines of one day's portfolio log explored
MaxBatch == 2         \* bars in one Append or WriteDay call
MaxRows == 3          \* rows of the bar file explored
MaxTime == 300        \* seconds the rate limiter is observed for
MaxInFlight == 2      \* requests the API is answering at one time
MaxRequests == 6      \* requests that reach an endpoint
MaxShutdowns == 2     \* calls of shutdown() explored
MaxDay == 3               \* UTC days the rollover is followed over
MaxFailedWrites == 1      \* record writes of the executor that raise

Scale == 10 ^ DecimalPlaces

Teams == {"alpha", "beta"}
Symbols == {"AAPL", "BTC"}
CRYPTO_SET == {"BTC"}
EquitySymbols == Symbols \ CRYPTO_SET
Sides == {"buy", "sell"}
OrderTypes == {"market", "limit"}
Quantities == {-1, 1, 2}
Prices == {1, 2}

NoOrderId == 0
NoPrice == 0
OrderIds == 1..MaxOrders

\* OrderTracker's terminal statuses, and the statuses the broker reports
TerminalStatuses == {"filled", "cancelled", "rejected", "expired"}
BrokerStatuses == {"new", "partially_filled", "filled", "canceled", "rejected", "expired"}
BrokerTerminal == {"filled", "canceled", "rejected", "expired"}

VARIABLES
    teams,           \* QTCAlphaOrchestrator.teams: the tenants created from the registry
    brokerPresent,   \* TradeExecutor._broker is not None
    cash,            \* team -> Portfolio.freeCash
    positions,       \* team -> symbol -> Position or NoPosition
    trades,          \* trades.jsonl: lines appended, the last line, lines per order id
    snapshots,       \* portfolio snapshot log: lines appended and the last line
    pending_orders,  \* OrderTracker.pending_orders: order_id -> PendingOrder
    disk_orders,     \* pending_orders.jsonl lines, in append order
    brokerOrders,    \* the broker's own record of the limit orders it accepted
    nextOrderId,     \* last order id the broker handed out
    errors,          \* strategy error log, all teams, in append order
    restarts,        \* number of process restarts so far
    ret,             \* what the last operation was called with and returned
    clock,           \* MinuteClock: the run loop and the handler calls in flight
    tk,              \* the orchestrator's minute tick: phase, tasks, status document
    portfolio,       \* one day's portfolio JSONL log and the consolidated parquet store
    bar_store,       \* one day's minute-bar parquet file: rows per (ticker, minute)
    units,           \* team -> the code unit in its strategy folder and how it got there
    limiter,         \* AuthFailureRateLimiter: its dictionaries, the time, requests being answered
    lifecycle,       \* ServerLifecycle: the flag, the SSE queues, where shutdown() stands
    rollover,        \* day rollover: today, _lastPortfolioFoldDay, lines per day in raw logs and in the store
    market,          \* the tenant registry file and the orchestrator's price cache
    failed_writes,   \* how many record writes of the executor have raised
    orch             \* the orchestrator's run(): running flag, loops and shutdown

\* the files and services beside the trading core
serviceVars == <<portfolio, bar_store, units, limiter, lifecycle, rollover, market, failed_writes, orch>>

\* the trading core, the clock and the tick
coreVars == <<teams, brokerPresent, cash, positions, trades, snapshots, pending_orders,
              disk_orders, brokerOrders, nextOrderId, errors, restarts, clock, tk>>

vars == <<coreVars, ret, serviceVars>>

\* no log written yet, no consolidated store
NewPortfolioFiles == [log |-> <<>>, log_exists |-> FALSE, store |-> <<>>, store_exists |-> FALSE]

\* the (ticker, minute) keys of one day's bars
Minutes == 1..2

BarKeys == EquitySymbols \X Minutes

\* no bar file written yet
NewBarStore == [exists |-> FALSE, rows |-> [k \in BarKeys |-> 0]]

\* the source files of a code unit: the entry-point module and a module it imports
FileNames == {"strategy", "helper"}

\* how a unit gets into a tenant's strategy folder
Ways == {"upload", "git_sync", "registry"}

\* a strategy folder nothing was put into yet
NoUnit == [active |-> FALSE, way |-> "-", files |-> <<>>, scanned |-> {}, loaded |-> FALSE]

\* the client addresses _get_client_ip tells apart
IPs == {"192.168.1.1", "192.168.1.2"}

\* AuthFailureRateLimiter.__init__: nothing recorded, nobody blocked; no
\* request in flight at time 0, no 401 answered yet
NewLimiter ==
    [now |-> 0, failures |-> [ip \in IPs |-> <<>>], blocked |-> [ip \in IPs |-> -1],
     inflight |-> EmptyBag, answered |-> [ip \in IPs |-> <<>>],
     failed |-> [ip \in IPs |-> 0], requests |-> 0]

\* the asyncio queues of SSE connections
Queues == {"q1", "q2"}

\* what put_nowait does on a queue: accept the item, raise QueueFull, or
\* raise something else
QueueKinds == {"ok", "full", "raises"}

\* ServerLifecycle.__init__, with no shutdown() running
NewLifecycle ==
    [is_shutting_down |-> FALSE, tracked |-> {}, kind |-> [q \in Queues |-> "ok"],
     sentinel |-> {}, phase |-> "idle", wait_time |-> 0, elapsed |-> 0, shutdowns |-> 0]

\* the UTC days of the raw portfolio logs
Days == 1..MaxDay

\* team_registry.yaml as the orchestrator was started from it, and an empty
\* _latest_prices
NewMarket ==
    [registry |-> {"alpha"}, latest_prices |-> [s \in Symbols |-> NoPrice]]

\* run() has set running and started its loops; shutdown() was not called
NewOrchestrator ==
    [running |-> TRUE, reconcile_loop |-> "sleeping", run |-> "running",
     shutdown |-> "none"]

ServicesInit ==
    /\ orch = NewOrchestrator
    /\ failed_writes = 0
    /\ market = NewMarket
    /\ rollover = [today |-> 1, last_fold_day |-> 0, log |-> [d \in Days |-> 0], store |-> [d \in Days |-> 0]]
    /\ lifecycle = NewLifecycle
    /\ portfolio = NewPortfolioFiles
    /\ bar_store = NewBarStore
    /\ units = [t \in Teams |-> NoUnit]
    /\ limiter = NewLimiter

\* the handlers registered with the clock
Handlers == {"on_minute", "async_handler", "sync_handler"}

\* MinuteClock() followed by run(): nothing in flight, the loop asleep
NewClock ==
    [tick |-> 0, phase |-> "sleeping", stop |-> FALSE, running |-> {},
     results |-> [h \in Handlers |-> "none"], logged |-> 0]

\* a tenant's entry of the runtime status document
NoStatus == [active |-> FALSE, error |-> FALSE]

\* the orchestrator before its first tick: no strategy loaded, no status yet
NewTick ==
    [n |-> 0, phase |-> "idle", market_open |-> FALSE, bars |-> FALSE,
     pre |-> [t \in Teams |-> 0],
     task |-> [t \in Teams |-> "none"],
     outcome |-> [t \in Teams |-> "-"],
     logged |-> [t \in Teams |-> 0],
     loaded |-> {}, blockedBy |-> "-",
     status |-> [t \in Teams |-> NoStatus],
     doc |-> [t \in Teams |-> NoStatus],
     completed |-> 0, stages |-> <<>>]

\* ------------------------------------------------------------- Decimal
Abs(x) == IF x < 0 THEN -x ELSE x

\* n / d rounded half-even to an integer (d # 0)
RoundDiv(n, d) ==
    LET a == Abs(n)
        b == Abs(d)
        q == a \div b
        r == a % b
        m == IF 2 * r > b THEN q + 1
             ELSE IF 2 * r < b THEN q
             ELSE IF q % 2 = 0 THEN q ELSE q + 1
    IN  IF (n < 0) = (d < 0) THEN m ELSE -m

\* ------------------------------------------------------------ positions
NoPosition == [quantity |-> 0, side |-> "none", avgCost |-> 0, costBasis |-> 0]

\* Position.fromTrade: avgCost = price, costBasis = abs(qty) * price
PositionFromTrade(qty, side, price) ==
    [quantity |-> qty, side |-> side, avgCost |-> price * Scale,
     costBasis |-> Abs(qty) * price * Scale]

\* is_symbol_trading: crypto always trades, equities in market hours only
IsSymbolTrading(symbol, marketOpen) ==
    IF symbol \in CRYPTO_SET THEN TRUE ELSE marketOpen

\* a validation that refuses nothing
ValidateNothing(freeCash, pos, side, quantity, price) == TRUE

\* TradeExecutor._validate_trade
ValidateTrade(freeCash, pos, side, quantity, price) ==
    IF side = "buy"
    THEN ~(freeCash < quantity * price)
    ELSE ~(pos = NoPosition \/ pos.quantity < quantity)

\* the buy branch of _update_portfolio on an existing position
BuyIntoPosition(existing, quantity, price) ==
    LET total_cost == existing.quantity * existing.avgCost + quantity * price * Scale
        total_quantity == existing.quantity + quantity
        new_avg_cost == RoundDiv(total_cost, total_quantity)
    IN  [quantity |-> total_quantity, side |-> "buy", avgCost |-> new_avg_cost,
         costBasis |-> total_quantity * new_avg_cost]

\* a sell branch that never deletes the position
SellKeepsPosition(existing, quantity) ==
    [quantity |-> existing.quantity - quantity, side |-> existing.side,
     avgCost |-> existing.avgCost,
     costBasis |-> (existing.quantity - quantity) * existing.avgCost]

\* the sell branch of _update_portfolio on an existing position
SellFromPosition(existing, quantity) ==
    LET new_quantity == existing.quantity - quantity
    IN  IF new_quantity <= 0
        THEN NoPosition
        ELSE [quantity |-> new_quantity, side |-> existing.side,
              avgCost |-> existing.avgCost,
              costBasis |-> new_quantity * existing.avgCost]

\* a cash update that charges and credits one unit less than traded
CashAfterShort(freeCash, side, quantity, price) ==
    IF side = "buy" THEN freeCash - (quantity - 1) * price
    ELSE freeCash + (quantity - 1) * price

\* the cash a trade moves: buys deduct, sells add quantity * price
CashAfter(freeCash, side, quantity, price) ==
    IF side = "buy" THEN freeCash - quantity * price ELSE freeCash + quantity * price

\* TradeExecutor._update_portfolio: [ok, cash, pos] for the traded symbol.
\* A division by zero (total_quantity = 0) raises inside the try block and
\* the method returns False before anything is assigned.
UpdatePortfolio(freeCash, pos, side, quantity, price) ==
    IF side = "buy" /\ pos # NoPosition /\ pos.quantity + quantity = 0
    THEN [ok |-> FALSE, cash |-> freeCash, pos |-> pos]
    ELSE [ok |-> TRUE,
          cash |-> CashAfter(freeCash, side, quantity, price),
          pos |-> IF side = "buy"
                  THEN IF pos # NoPosition
                       THEN BuyIntoPosition(pos, quantity, price)
                       ELSE PositionFromTrade(quantity, "buy", price)
                  ELSE IF pos # NoPosition
                       THEN SellFromPosition(pos, quantity)
                       ELSE NoPosition]

\* ------------------------------------------------------------ snapshots
\* current_prices is a dict: a function whose domain is a subset of Symbols
NoSymbol == "-"

\* the price buildSnapshot values a position at, fixed-point: the touched
\* symbol at the touched price, else the current price, else avgCost
SnapshotPrice(pos, sym, current_prices, touchedSymbol, touchedPrice) ==
    IF sym = touchedSymbol THEN touchedPrice * Scale
    ELSE IF sym \in DOMAIN current_prices THEN current_prices[sym] * Scale
    ELSE pos.avgCost

RECURSIVE SumValues(_, _, _, _, _)
SumValues(S, posmap, current_prices, touchedSymbol, touchedPrice) ==
    IF S = {} THEN 0
    ELSE LET sym == CHOOSE x \in S : TRUE
             v == IF posmap[sym] = NoPosition THEN 0
                  ELSE posmap[sym].quantity *
                       SnapshotPrice(posmap[sym], sym, current_prices,
                                     touchedSymbol, touchedPrice)
         IN  v + SumValues(S \ {sym}, posmap, current_prices, touchedSymbol, touchedPrice)

\* TradeExecutor.buildSnapshot
BuildSnapshot(team, freeCash, posmap, current_prices, touchedSymbol, touchedPrice) ==
    [team_id |-> team, cash |-> freeCash,
     market_value |-> freeCash * Scale +
         SumValues(Symbols, posmap, current_prices, touchedSymbol, touchedPrice)]

\* ---------------------------------------------------------------- records
TradeRecord(team, symbol, side, quantity, requested_price, execution_price, order_type, broker_order_id) ==
    [team_id |-> team, symbol |-> symbol, side |-> side, quantity |-> quantity,
     requested_price |-> requested_price, execution_price |-> execution_price,
     order_type |-> order_type, broker_order_id |-> broker_order_id]

\* An append-only log file is kept as the number of lines appended and the
\* last line; trades.jsonl also as the number of lines per broker order id.
NoTrade == TradeRecord("-", NoSymbol, "-", 0, NoPrice, NoPrice, "-", NoOrderId)

NoSnapshot == [team_id |-> "-", cash |-> 0, market_value |-> 0]

\* appendTradeRecord, and the append of _create_trade_record_from_order
AppendTrade(log, tr) ==
    [count |-> log.count + 1, last |-> tr,
     by_order |-> [o \in OrderIds |->
                    IF o = tr.broker_order_id THEN log.by_order[o] + 1
                    ELSE log.by_order[o]]]

\* appendPortfolioSnapshot
AppendSnapshot(log, snap) ==
    [count |-> log.count + 1, last |-> snap]

\* the PendingOrder execute() builds for a submitted limit order
NewPendingOrder(order_id, team, symbol, side, quantity, price) ==
    [order_id |-> order_id, team_id |-> team, symbol |-> symbol, side |-> side,
     quantity |-> quantity, order_type |-> "limit", limit_price |-> price,
     status |-> "new", filled_qty |-> 0, filled_avg_price |-> NoPrice,
     requested_price |-> price, broker_order_id |-> order_id]

Ret(op, team, symbol, side, quantity, price, order_type, ok, msg) ==
    [op |-> op, team_id |-> team, symbol |-> symbol, side |-> side,
     quantity |-> quantity, price |-> price, order_type |-> order_type,
     ok |-> ok, msg |-> msg]

RetOf(op, ok, msg) == Ret(op, "-", NoSymbol, "-", 0, NoPrice, "-", ok, msg)

\* --------------------------------------------------------- TradeExecutor
\* the order is sent to the broker
RoutesToBroker(order_type) ==
    brokerPresent /\ order_type \in {"market", "limit"}

\* should_update_portfolio left True on the limit branch
AlwaysUpdatePortfolio(order_type, submitted) == TRUE

\* should_update_portfolio: False only for a limit order the broker accepted
ShouldUpdatePortfolio(order_type, submitted) ==
    ~(order_type = "limit" /\ submitted)

\* execution_price: the requested price, replaced by the broker's
\* filled_avg_price when a market order's lookup returns one.
\* fill is NoPrice when the lookup raised or returned no price.
ExecutionPrice(price, order_type, submitted, fill) ==
    IF submitted /\ order_type = "market" /\ fill # NoPrice THEN fill ELSE price

\* store_pending_order: index in memory, then append a line to the file
StoreInMemory(index, order) ==
    [o \in DOMAIN index \cup {order.order_id} |->
        IF o = order.order_id THEN order ELSE index[o]]

StoreOnDisk(lines, order) ==
    Append(lines, order)

\* the broker's record of a limit order it accepted
NewBrokerOrder(side, quantity, price) ==
    [status |-> "new", filled_qty |-> 0, filled_avg_price |-> NoPrice,
     side |-> side, quantity |-> quantity, limit_price |-> price]

\* TradeExecutor.execute(team, req, current_prices).
\*   marketOpen  the wall clock is inside US market hours
\*   raises      the broker raises on submission (it always does for a
\*               quantity that is not positive)
\*   fill        the filled_avg_price of the market order's lookup, NoPrice
\*               when it has none or the lookup raises
Execute(t, sym, side, qty, price, otype, marketOpen, cp, raises, fill) ==
    LET pos == positions[t][sym]
        routed == RoutesToBroker(otype)
        submitted == routed /\ ~(raises \/ qty <= 0)
        broker_error == routed /\ ~submitted
        order_id == IF submitted THEN nextOrderId + 1 ELSE NoOrderId
        stored == submitted /\ otype = "limit"
        applies == ShouldUpdatePortfolio(otype, submitted)
        execution_price == ExecutionPrice(price, otype, submitted, fill)
        up == UpdatePortfolio(cash[t], pos, side, qty, execution_price)
        posAfter == [positions[t] EXCEPT ![sym] = up.pos]
        R(ok, msg) == Ret("execute", t, sym, side, qty, price, otype, ok, msg)
        \* the refusal for a closed session names the symbol and nothing else
        Closed == Ret("execute", t, sym, "-", 0, NoPrice, "-", FALSE, "Market closed")
    IN  /\ trades.count < MaxTrades
        /\ submitted => nextOrderId < MaxOrders
        /\ UNCHANGED <<teams, brokerPresent, errors, restarts>>
        /\ IF ~IsSymbolTrading(sym, marketOpen)
           THEN /\ ret' = Closed
                /\ UNCHANGED <<cash, positions, trades, snapshots, pending_orders,
                               disk_orders, brokerOrders, nextOrderId>>
           ELSE IF ~ValidateTrade(cash[t], pos, side, qty, price)
           THEN /\ ret' = R(FALSE, "Trade validation failed")
                /\ UNCHANGED <<cash, positions, trades, snapshots, pending_orders,
                               disk_orders, brokerOrders, nextOrderId>>
           ELSE /\ nextOrderId' = IF submitted THEN order_id ELSE nextOrderId
                /\ IF stored
                   THEN LET order == NewPendingOrder(order_id, t, sym, side, qty, price)
                        IN  /\ pending_orders' = StoreInMemory(pending_orders, order)
                            /\ disk_orders' = StoreOnDisk(disk_orders, order)
                            /\ brokerOrders' =
                                 [o \in DOMAIN brokerOrders \cup {order_id} |->
                                    IF o = order_id
                                    THEN NewBrokerOrder(side, qty, price)
                                    ELSE brokerOrders[o]]
                   ELSE UNCHANGED <<pending_orders, disk_orders, brokerOrders>>
                /\ IF applies /\ up.ok
                   THEN /\ cash' = [cash EXCEPT ![t] = up.cash]
                        /\ positions' = [positions EXCEPT ![t] = posAfter]
                        /\ trades' = AppendTrade(trades,
                                        TradeRecord(t, sym, side, qty, price,
                                                    execution_price, otype, order_id))
                        /\ snapshots' = AppendSnapshot(snapshots,
                                           BuildSnapshot(t, up.cash, posAfter, cp,
                                                         sym, execution_price))
                   ELSE UNCHANGED <<cash, positions, trades, snapshots>>
                /\ ret' = IF stored THEN R(TRUE, "Limit order placed")
                          ELSE IF ~up.ok THEN R(FALSE, "Portfolio update failed")
                          ELSE IF broker_error
                               THEN R(TRUE, "Trade executed locally; broker error")
                               ELSE R(TRUE, "Trade executed successfully")

\* TradeExecutor.execute when recording raises after the ledger update:
\* appendTradeRecord or appendPortfolioSnapshot fails on its file (at names
\* which), the outer except returns (False, "Trade execution error").  The
\* broker order, if any, is placed and _update_portfolio has run.
ExecuteRecordingRaises(t, sym, side, qty, price, otype, marketOpen, cp, raises, fill, at) ==
    LET pos == positions[t][sym]
        routed == RoutesToBroker(otype)
        submitted == routed /\ ~(raises \/ qty <= 0)
        order_id == IF submitted THEN nextOrderId + 1 ELSE NoOrderId
        execution_price == ExecutionPrice(price, otype, submitted, fill)
        up == UpdatePortfolio(cash[t], pos, side, qty, execution_price)
    IN  /\ trades.count < MaxTrades
        /\ submitted => nextOrderId < MaxOrders
        /\ IsSymbolTrading(sym, marketOpen)
        /\ ValidateTrade(cash[t], pos, side, qty, price)
        /\ ShouldUpdatePortfolio(otype, submitted) /\ up.ok
        /\ at \in {"trade", "snapshot"}
        /\ nextOrderId' = IF submitted THEN order_id ELSE nextOrderId
        /\ cash' = [cash EXCEPT ![t] = up.cash]
        /\ positions' = [positions EXCEPT ![t][sym] = up.pos]
        /\ trades' = IF at = "snapshot"
                     THEN AppendTrade(trades,
                              TradeRecord(t, sym, side, qty, price,
                                          execution_price, otype, order_id))
                     ELSE trades
        /\ ret' = Ret("execute", t, sym, side, qty, price, otype, FALSE,
                      "Trade execution error")
        /\ UNCHANGED <<teams, brokerPresent, snapshots, pending_orders, disk_orders,
                       brokerOrders, errors, restarts>>

\* ------------------------------------------------------------ the broker
\* The broker moves an accepted limit order along: new -> partially_filled
\* -> filled, or to canceled, rejected or expired.  A buy fills at or below
\* its limit, a sell at or above.
BrokerNextStatuses(status) ==
    IF status = "new" THEN BrokerStatuses \ {"new"}
    ELSE IF status = "partially_filled" THEN {"filled", "canceled", "expired"}
    ELSE {}

BrokerUpdate(o, status, p) ==
    LET b == brokerOrders[o]
        fills == status \in {"partially_filled", "filled"}
    IN  /\ o \in DOMAIN brokerOrders
        /\ status \in BrokerNextStatuses(b.status)
        /\ status = "partially_filled" => b.quantity > 1
        /\ IF b.side = "buy" THEN p <= b.limit_price ELSE p >= b.limit_price
        /\ brokerOrders' = [brokerOrders EXCEPT ![o] =
               [b EXCEPT !.status = status,
                         !.filled_qty = IF status = "filled" THEN b.quantity
                                        ELSE IF status = "partially_filled" THEN 1
                                        ELSE @,
                         !.filled_avg_price = IF fills THEN p ELSE @]]
        /\ ret' = RetOf("broker_update", TRUE, "-")
        /\ UNCHANGED <<teams, brokerPresent, cash, positions, trades, snapshots,
                       pending_orders, disk_orders, nextOrderId, errors, restarts>>

\* ---------------------------------------------------------- OrderTracker
\* the field updates of update_order_status: the status is taken from the
\* broker as it is, filled_qty and filled_avg_price only when truthy
UpdateOrderStatus(order, status_data) ==
    [order EXCEPT
        !.status = status_data.status,
        !.filled_qty = IF status_data.filled_qty # 0
                       THEN status_data.filled_qty ELSE @,
        !.filled_avg_price = IF status_data.filled_avg_price # NoPrice
                             THEN status_data.filled_avg_price ELSE @]

\* a test that also takes a partial fill for a fill
PartlyFilledWithPrice(order) ==
    order.status \in {"filled", "partially_filled"} /\ order.filled_avg_price # NoPrice

\* the test that makes update_order_status emit a TradeRecord and drop the order
FilledWithPrice(order) ==
    order.status = "filled" /\ order.filled_avg_price # NoPrice

\* _create_trade_record_from_order
TradeRecordFromOrder(order) ==
    TradeRecord(order.team_id, order.symbol, order.side, order.quantity,
                order.requested_price,
                IF order.filled_avg_price # NoPrice
                THEN order.filled_avg_price ELSE order.requested_price,
                order.order_type, order.broker_order_id)

\* trades.jsonl after the TradeRecords of the orders in S are appended, in
\* index (order id) order
RECURSIVE AppendRecordsOf(_, _, _)
AppendRecordsOf(log, S, index) ==
    IF S = {} THEN log
    ELSE LET o == CHOOSE x \in S : \A y \in S : x <= y
         IN  AppendRecordsOf(AppendTrade(log, TradeRecordFromOrder(index[o])),
                             S \ {o}, index)

\* a pass that stops at the first lookup that raises
QueriedUntilError(failing) ==
    {o \in DOMAIN pending_orders : \A f \in failing : o < f}

\* the orders a pass gets an answer for: each lookup sits in its own
\* try/except, so all but the failing ones
Queried(failing) == DOMAIN pending_orders \ failing

\* a loop over the index itself: removing a filled order while the loop
\* runs ends it with "dictionary changed size during iteration"
IteratesLiveIndex(removed) == removed = {}

\* the loops run over list(self.pending_orders.items()) and
\* list(self.pending_orders.keys()): a copy, which removals do not disturb
IterationCompletes(removed) == TRUE

\* one pass of reconcile_with_broker; failing are the orders whose broker
\* lookup raises in this pass
Reconcile(failing) ==
    LET queried == Queried(failing)
        updated == [o \in DOMAIN pending_orders |->
                      IF o \in queried
                      THEN UpdateOrderStatus(pending_orders[o], brokerOrders[o])
                      ELSE pending_orders[o]]
        filledNow == {o \in queried : FilledWithPrice(updated[o])}
    IN  /\ brokerPresent
        /\ failing \subseteq DOMAIN pending_orders
        /\ trades.count + Cardinality(filledNow) <= MaxTrades
        /\ pending_orders' = [o \in DOMAIN pending_orders \ filledNow |-> updated[o]]
        /\ trades' = AppendRecordsOf(trades, filledNow, updated)
        /\ ret' = [op |-> "reconcile", ok |-> IterationCompletes(filledNow), failing |-> failing]
        /\ UNCHANGED <<teams, brokerPresent, cash, positions, snapshots, disk_orders,
                       brokerOrders, nextOrderId, errors, restarts>>

\* load_pending_orders: every line of pending_orders.jsonl whose recorded
\* status is not terminal goes into the index
LoadPendingOrders(lines) ==
    LET live == {i \in 1..Len(lines) : lines[i].status \notin TerminalStatuses}
        ids == {lines[i].order_id : i \in live}
    IN  [o \in ids |->
           lines[CHOOSE i \in live :
                   /\ lines[i].order_id = o
                   /\ \A j \in live : lines[j].order_id = o => j <= i]]

\* The process stops and starts again: teams are created afresh from the
\* registry (create_team), the index is rebuilt by load_pending_orders.
\* The files and the broker keep their state.
Restart ==
    /\ restarts < MaxRestarts
    /\ restarts' = restarts + 1
    /\ cash' = [t \in Teams |-> InitialCash]
    /\ positions' = [t \in Teams |-> [s \in Symbols |-> NoPosition]]
    /\ pending_orders' = LoadPendingOrders(disk_orders)
    /\ ret' = RetOf("restart", TRUE, "-")
    /\ clock' = NewClock
    /\ tk' = NewTick
    /\ UNCHANGED serviceVars
    /\ UNCHANGED <<teams, brokerPresent, trades, snapshots, disk_orders, brokerOrders,
                   nextOrderId, errors>>

\* ---------------------------------------------------------- orchestrator
\* What generate_signal hands back: nothing, an exception, a timeout, or a
\* dict.  complete = FALSE is a dict without its symbol field.
RawSignals ==
    [kind : {"none", "raise", "timeout"}, complete : {TRUE}, action : {"buy"},
     quantity : {1}, price : {1}, order_type : {"market"}]
    \cup
    [kind : {"dict"}, complete : BOOLEAN, action : {"buy", "sell", "hold"},
     quantity : {-1, 1}, price : {0, 1}, order_type : {"market", "limit", "bogus"}]

\* StrategySignal.model_validate: symbol, action, quantity and price are
\* required, action is a Side, quantity and price are any Decimal; other
\* keys of the dict are ignored
SignalSchemaValid(raw) ==
    raw.complete /\ raw.action \in Sides

\* _execute_team_strategy for one tenant, from the signal call on.
\* A schema-valid signal reaches the TradeRequest construction, which reads
\* signal.order_type: StrategySignal has no such field, the AttributeError
\* leaves the coroutine and asyncio.gather hands it back to be logged.
ExecuteTeamStrategy(t, sym, raw) ==
    LET R(ok, msg) == Ret("strategy", t, IF raw.complete THEN sym ELSE NoSymbol,
                          raw.action, raw.quantity, raw.price, raw.order_type, ok, msg)
        E(phase) == [team_id |-> t, phase |-> phase, timeout |-> raw.kind = "timeout"]
    IN  /\ Len(errors) < MaxErrors
        /\ IF raw.kind \in {"raise", "timeout"}
           THEN /\ errors' = Append(errors, E("signal_generation"))
                /\ ret' = R(FALSE, "signal_generation")
           ELSE IF raw.kind = "none"
           THEN /\ errors' = errors
                /\ ret' = R(TRUE, "no signal")
           ELSE IF ~SignalSchemaValid(raw)
           THEN /\ errors' = Append(errors, E("signal_validation"))
                /\ ret' = R(FALSE, "signal_validation")
           ELSE /\ errors' = errors
                /\ ret' = R(FALSE, "AttributeError")
        /\ UNCHANGED <<teams, brokerPresent, cash, positions, trades, snapshots,
                       pending_orders, disk_orders, brokerOrders, nextOrderId, restarts>>

\* ------------------------------------------------------------------ specs
EmptyMap == [x \in {} |-> x]


InitWith(registry, brokers) ==
    /\ teams = registry
    /\ brokerPresent \in brokers
    /\ cash = [t \in Teams |-> InitialCash]
    /\ positions = [t \in Teams |-> [s \in Symbols |-> NoPosition]]
    /\ trades = [count |-> 0, last |-> NoTrade, by_order |-> [o \in OrderIds |-> 0]]
    /\ snapshots = [count |-> 0, last |-> NoSnapshot]
    /\ pending_orders = EmptyMap
    /\ disk_orders = <<>>
    /\ brokerOrders = EmptyMap
    /\ nextOrderId = NoOrderId
    /\ errors = <<>>
    /\ restarts = 0
    /\ ret = RetOf("init", TRUE, "-")
    /\ clock = NewClock
    /\ tk = NewTick
    /\ ServicesInit

\* the environment of one execute() call, as far as the call reads it: the
\* clock for equities, the broker's answers when the order is routed to it,
\* current prices of the other held symbols for a snapshot
ExecuteEnvs(t, sym, side, qty, price, otype) ==
    LET valid == ValidateTrade(cash[t], positions[t][sym], side, qty, price)
        routed == RoutesToBroker(otype) /\ qty > 0
        others == {s \in Symbols \ {sym} : positions[t][s] # NoPosition}
        Env(marketOpen, raises, fill, cp) ==
            [marketOpen |-> marketOpen, raises |-> raises, fill |-> fill, cp |-> cp]
        closed == IF sym \in CRYPTO_SET THEN {}
                  ELSE {Env(FALSE, FALSE, NoPrice, EmptyMap)}
        refused == {Env(TRUE, FALSE, NoPrice, EmptyMap)}
        maps == UNION {[S -> Prices] : S \in SUBSET others}
        local == {Env(TRUE, FALSE, NoPrice, cp) : cp \in maps}
        raising == {Env(TRUE, TRUE, NoPrice, cp) : cp \in maps}
        filled == {Env(TRUE, FALSE, e[1], e[2]) :
                      e \in (Prices \cup {NoPrice}) \X maps}
        placed == {Env(TRUE, FALSE, NoPrice, EmptyMap)}
    IN  closed \cup
        (IF ~valid THEN refused
         ELSE IF ~routed THEN local
         ELSE IF otype = "market" THEN raising \cup filled
         ELSE raising \cup placed)

\* a registry of one team, with and without a broker configured
Init == InitWith({"alpha"}, BOOLEAN)

\* a registry of one team, with a broker configured
InitBroker == InitWith({"alpha"}, {TRUE})

DoExecute ==
    /\ UNCHANGED <<clock, tk, serviceVars>>
    /\ \E t \in teams, sym \in EquitySymbols, side \in Sides, qty \in Quantities,
          price \in Prices, otype \in OrderTypes :
           \E e \in ExecuteEnvs(t, sym, side, qty, price, otype) :
               Execute(t, sym, side, qty, price, otype, e.marketOpen, e.cp,
                       e.raises, e.fill)

DoBrokerUpdate ==
    /\ UNCHANGED <<clock, tk, serviceVars>>
    /\ \E o \in OrderIds, status \in BrokerStatuses, p \in Prices :
           BrokerUpdate(o, status, p)

DoReconcile ==
    /\ UNCHANGED <<clock, tk, serviceVars>>
    /\ \E failing \in SUBSET OrderIds : Reconcile(failing)

DoStrategy ==
    /\ UNCHANGED <<clock, tk, serviceVars>>
    /\ \E t \in teams, sym \in Symbols, raw \in RawSignals :
           ExecuteTeamStrategy(t, sym, raw)

\* execute() for a limit order that the broker accepts
DoSubmitLimit ==
    /\ UNCHANGED <<clock, tk, serviceVars>>
    /\ \E t \in teams, sym \in Symbols, side \in Sides, qty \in Quantities,
          price \in Prices, marketOpen \in BOOLEAN :
           /\ qty > 0
           /\ Execute(t, sym, side, qty, price, "limit", marketOpen, EmptyMap,
                      FALSE, NoPrice)

\* a team_io that hands the strategy the live portfolio
WriteReachesPortfolio(t, c) == c

\* the tenant's freeCash after the strategy wrote c into team_io["cash"]
LiveCashAfterWrite(t, c) == cash[t]

\* execute() calls for one share at the unit price: market orders of every
\* tenant, which the broker takes (reporting no fill price) or raises on,
\* and limit buys the broker accepts
DoLedgerExecute ==
    /\ UNCHANGED <<clock, tk, serviceVars>>
    /\ \E t \in teams, sym \in EquitySymbols, marketOpen \in BOOLEAN :
        \/ \E side \in Sides, raises \in BOOLEAN :
               Execute(t, sym, side, 1, 1, "market", marketOpen, EmptyMap, raises, NoPrice)
        \/ Execute(t, sym, "buy", 1, 1, "limit", marketOpen, EmptyMap, FALSE, NoPrice)

DoExecuteRecordingRaises ==
    /\ failed_writes < MaxFailedWrites
    /\ failed_writes' = failed_writes + 1
    /\ UNCHANGED <<clock, tk, portfolio, bar_store, units, limiter, lifecycle, rollover, market, orch>>
    /\ \E t \in teams, sym \in EquitySymbols, side \in Sides, at \in {"trade", "snapshot"} :
           ExecuteRecordingRaises(t, sym, side, 1, 1, "market", TRUE, EmptyMap, FALSE,
                                  NoPrice, at)

\* the broker fills an accepted limit order at its limit price
DoLedgerBrokerFill ==
    /\ UNCHANGED <<clock, tk, serviceVars>>
    /\ \E o \in OrderIds : BrokerUpdate(o, "filled", 1)

\* generate_signal runs on the team_io dict built for the call, a copy of
\* cash and positions as floats: what the strategy writes into it stays there
StrategyWritesTeamIO(t, c) ==
    /\ cash' = [cash EXCEPT ![t] = LiveCashAfterWrite(t, c)]
    /\ ret' = Ret("team_io_write", t, NoSymbol, "-", 0, NoPrice, "-", TRUE, "-")
    /\ UNCHANGED <<teams, brokerPresent, positions, trades, snapshots, pending_orders,
                   disk_orders, brokerOrders, nextOrderId, errors, restarts, clock, tk,
                   serviceVars>>

\* the executor: every order type, every broker configuration
Next == DoExecute

Spec == Init /\ [][Next]_vars

\* limit orders from submission to fill, in one run of the process
NextOrdersRun == DoSubmitLimit \/ DoBrokerUpdate \/ DoReconcile

SpecOrdersRun == InitBroker /\ [][NextOrdersRun]_vars

\* cleanup_old_orders; old are the orders last updated before the cutoff
CleanupOldOrders(old) ==
    LET removed == {o \in old : pending_orders[o].status \in TerminalStatuses}
    IN  /\ old \subseteq DOMAIN pending_orders
        /\ pending_orders' = [o \in DOMAIN pending_orders \ removed |-> pending_orders[o]]
        /\ ret' = [op |-> "cleanup", ok |-> IterationCompletes(removed), failing |-> {}]
        /\ UNCHANGED <<teams, brokerPresent, cash, positions, trades, snapshots, disk_orders,
                       brokerOrders, nextOrderId, errors, restarts, clock, tk, serviceVars>>

\* the tick loop's submissions and the steps of _reconcile_orders_loop, which
\* all run between two awaits of the one event loop
NextIndex == NextOrdersRun \/ \E old \in SUBSET OrderIds : CleanupOldOrders(old)

SpecIndex == InitBroker /\ [][NextIndex]_vars

\* the same across process restarts
NextOrders == NextOrdersRun \/ Restart

SpecOrders == InitBroker /\ [][NextOrders]_vars

\* the per-tenant signal handling alone
SpecSignals == Init /\ [][DoStrategy]_vars

\* ------------------------------------------- a pass over several orders
\* the orders in the index when a reconciliation pass is looked at
PassOrders == MaxOrders + 1

PassIds == 1..PassOrders

\* the tenants take turns submitting
TeamOf(o) == IF o % 2 = 1 THEN "alpha" ELSE "beta"

\* OrderTracker.get_open_orders: the ids of the orders it returns
GetOpenOrders(team_id) ==
    {o \in DOMAIN pending_orders :
        /\ pending_orders[o].team_id = team_id
        /\ pending_orders[o].status \notin TerminalStatuses}

\* a call of get_open_orders, as the orders endpoint makes it
DoGetOpenOrders ==
    /\ UNCHANGED <<clock, tk, serviceVars>>
    /\ \E team_id \in Teams :
           /\ ret' = [op |-> "get_open_orders", ok |-> TRUE, team_id |-> team_id,
                      result |-> GetOpenOrders(team_id)]
           /\ UNCHANGED <<teams, brokerPresent, cash, positions, trades, snapshots,
                          pending_orders, disk_orders, brokerOrders, nextOrderId,
                          errors, restarts>>

\* Two tenants, a broker, and PassOrders limit buys of AAPL at the highest
\* price accepted and pending: the state after as many execute() calls.
InitPass ==
    \E qty \in [PassIds -> {1, 2}] :
        LET limit == CHOOSE p \in Prices : \A q \in Prices : q <= p
            order(o) == NewPendingOrder(o, TeamOf(o), "AAPL", "buy", qty[o], limit)
        IN  /\ teams = Teams
            /\ brokerPresent = TRUE
            /\ cash = [t \in Teams |-> InitialCash]
            /\ positions = [t \in Teams |-> [sym \in Symbols |-> NoPosition]]
            /\ trades = [count |-> 0, last |-> NoTrade,
                         by_order |-> [o \in OrderIds |-> 0]]
            /\ snapshots = [count |-> 0, last |-> NoSnapshot]
            /\ pending_orders = [o \in PassIds |-> order(o)]
            /\ disk_orders = [o \in PassIds |-> order(o)]
            /\ brokerOrders = [o \in PassIds |-> NewBrokerOrder("buy", qty[o], limit)]
            /\ nextOrderId = PassOrders
            /\ errors = <<>>
            /\ restarts = 0
            /\ ret = RetOf("init", TRUE, "-")
            /\ clock = NewClock
            /\ tk = NewTick
            /\ ServicesInit

DoBrokerUpdatePass ==
    /\ UNCHANGED <<clock, tk, serviceVars>>
    /\ \E o \in PassIds, status \in BrokerStatuses, p \in Prices :
           BrokerUpdate(o, status, p)

DoReconcilePass ==
    /\ UNCHANGED <<clock, tk, serviceVars>>
    /\ \E failing \in SUBSET PassIds : Reconcile(failing)

NextPass == DoBrokerUpdatePass \/ DoReconcilePass \/ DoGetOpenOrders

SpecPass == InitPass /\ [][NextPass]_vars

\* ------------------------------------------------------------ minute clock
\* everything but the clock
ledgerVars == <<teams, brokerPresent, cash, positions, trades, snapshots, pending_orders,
                disk_orders, brokerOrders, nextOrderId, errors, restarts, tk, serviceVars>>

\* asyncio.wait(..., return_when=FIRST_COMPLETED) in place of the gather
GatherFirstCompleted(results) ==
    IF \E h \in Handlers : results[h] # "none" THEN "results" ELSE "wait"

\* asyncio.gather without return_exceptions: the first exception leaves it
GatherPropagating(results) ==
    IF \E h \in Handlers : results[h] = "raised" THEN "raise"
    ELSE IF \A h \in Handlers : results[h] # "none" THEN "results"
    ELSE "wait"

\* await asyncio.gather(*tasks, return_exceptions=True): resumes when every
\* handler has returned or raised, and hands the exceptions back as results
Gather(results) ==
    IF \A h \in Handlers : results[h] # "none" THEN "results" ELSE "wait"

\* MinuteClock.run wakes from its sleep and _tick calls every handler with
\* the tick's timestamp; a stop() during the sleep does not cut it short
ClockTick ==
    /\ clock.phase = "sleeping"
    /\ clock.tick < MaxTicks
    /\ clock' = [clock EXCEPT
                    !.tick = @ + 1,
                    !.phase = "gathering",
                    !.running = @ \cup {<<h, clock.tick + 1>> : h \in Handlers},
                    !.results = [h \in Handlers |-> "none"]]
    /\ ret' = RetOf("clock_tick", TRUE, "-")
    /\ UNCHANGED ledgerVars

\* a handler call ends, by returning or by raising; the gather of the tick
\* that made the call takes its result
HandlerEnds(h, outcome) ==
    \E n \in 1..MaxTicks :
        /\ <<h, n>> \in clock.running
        /\ clock' = [clock EXCEPT
                        !.running = @ \ {<<h, n>>},
                        !.results = IF n = clock.tick /\ clock.phase = "gathering"
                                    THEN [@ EXCEPT ![h] = outcome] ELSE @]
        /\ ret' = RetOf("handler", outcome = "returned", h)
        /\ UNCHANGED ledgerVars

HandlerReturns == \E h \in Handlers : HandlerEnds(h, "returned")

HandlerRaises == \E h \in Handlers : HandlerEnds(h, "raised")

\* the gather resumes _tick: exceptions among the results are logged, _tick
\* returns, run() tests the stop event and sleeps to the next minute
ClockGathered ==
    /\ clock.phase = "gathering"
    /\ Gather(clock.results) # "wait"
    /\ clock' = [clock EXCEPT
                    !.phase = IF Gather(clock.results) = "raise" \/ clock.stop
                              THEN "exited" ELSE "sleeping",
                    !.logged = IF Gather(clock.results) = "raise" THEN @
                               ELSE @ + Cardinality({h \in Handlers :
                                                        clock.results[h] = "raised"})]
    /\ ret' = RetOf("clock_gathered", Gather(clock.results) = "results", "-")
    /\ UNCHANGED ledgerVars

\* MinuteClock.stop
ClockStop ==
    /\ ~clock.stop
    /\ clock.phase # "exited"
    /\ clock' = [clock EXCEPT !.stop = TRUE]
    /\ ret' = RetOf("clock_stop", TRUE, "-")
    /\ UNCHANGED ledgerVars

NextClock == ClockTick \/ HandlerReturns \/ HandlerRaises \/ ClockGathered \/ ClockStop

SpecClock == Init /\ [][NextClock]_vars

\* the event loop runs every ready coroutine, and handlers end
SpecClockLive ==
    /\ SpecClock
    /\ WF_vars(ClockTick)
    /\ WF_vars(ClockGathered)
    /\ \A h \in Handlers : WF_vars(HandlerEnds(h, "returned") \/ HandlerEnds(h, "raised"))

\* ------------------------------------------------------- run and shutdown
\* everything the orchestrator's run() and shutdown() leave alone
runFrame == <<teams, brokerPresent, cash, positions, trades, snapshots, pending_orders,
              disk_orders, brokerOrders, nextOrderId, errors, restarts, tk, portfolio,
              bar_store, units, limiter, lifecycle, rollover, market, failed_writes>>

\* the clock's ticks after the MaxTicks that are told apart: the loop wakes
\* and calls every handler as before, the tick number is no longer counted
ClockTickUncounted ==
    /\ clock.phase = "sleeping"
    /\ clock.tick = MaxTicks
    /\ \A h \in Handlers : <<h, MaxTicks>> \notin clock.running
    /\ clock' = [clock EXCEPT
                    !.phase = "gathering",
                    !.running = @ \cup {<<h, MaxTicks>> : h \in Handlers},
                    !.results = [h \in Handlers |-> "none"]]
    /\ ret' = RetOf("clock_tick", TRUE, "uncounted")
    /\ UNCHANGED ledgerVars

\* _signal_handler, installed for SIGINT and SIGTERM: it clears running
SignalHandler ==
    /\ orch.running
    /\ orch' = [orch EXCEPT !.running = FALSE]
    /\ ret' = RetOf("signal", TRUE, "-")
    /\ UNCHANGED <<clock, runFrame>>

\* _reconcile_orders_loop wakes from its sleep, makes its pass (the index is
\* empty here) and tests running again
ReconcileLoopWakes ==
    /\ orch.reconcile_loop = "sleeping"
    /\ orch' = [orch EXCEPT !.reconcile_loop = IF orch.running THEN "sleeping" ELSE "exited"]
    /\ ret' = RetOf("reconcile_loop", orch.running, "-")
    /\ UNCHANGED <<clock, runFrame>>

\* asyncio.wait_for(orchestrator.run(), timeout) of a run started with
\* --duration cancels run() and the clock loop awaited inside it
DurationTimeout ==
    /\ orch.run = "running"
    /\ orch' = [orch EXCEPT !.run = "cancelled"]
    /\ clock' = [clock EXCEPT !.phase = "exited"]
    /\ ret' = RetOf("duration_timeout", TRUE, "-")
    /\ UNCHANGED runFrame

\* the try block of run() ends: minute_service.run() returns once the clock
\* loop has exited, or a start-up step (loading the pending orders, starting
\* the data repair service) raises before the clock loop is entered
RunEnds(cause) ==
    /\ orch.run = "running"
    /\ IF cause = "clock_exited"
       THEN clock.phase = "exited" /\ clock' = clock
       ELSE /\ clock.tick = 0 /\ clock.phase = "sleeping"
            /\ clock' = [clock EXCEPT !.phase = "exited"]
    /\ orch' = [orch EXCEPT !.run = "returned"]
    /\ ret' = RetOf("run_ends", cause = "clock_exited", cause)
    /\ UNCHANGED runFrame

RunReturns == RunEnds("clock_exited")

\* shutdown(), called from the finally block of run() and again from the
\* finally block of the entry point: it stops the minute service
OrchestratorShutdown ==
    /\ orch.run # "running"
    /\ orch.shutdown # "twice"
    /\ orch' = [orch EXCEPT !.shutdown = IF @ = "none" THEN "once" ELSE "twice"]
    /\ clock' = [clock EXCEPT !.stop = TRUE]
    /\ ret' = RetOf("shutdown", TRUE, "-")
    /\ UNCHANGED runFrame

NextRun ==
    \/ ClockTick \/ ClockTickUncounted \/ HandlerReturns \/ ClockGathered
    \/ SignalHandler \/ ReconcileLoopWakes \/ DurationTimeout
    \/ \E cause \in {"clock_exited", "startup_raised"} : RunEnds(cause)
    \/ OrchestratorShutdown

\* the event loop runs every ready coroutine, every handler returns, sleeps
\* end; no signal and no --duration is promised
SpecRunLive ==
    /\ Init /\ [][NextRun]_vars
    /\ WF_vars(ClockTick)
    /\ WF_vars(ClockTickUncounted)
    /\ WF_vars(ClockGathered)
    /\ \A h \in Handlers : WF_vars(HandlerEnds(h, "returned"))
    /\ WF_vars(ReconcileLoopWakes)
    /\ WF_vars(RunReturns)
    /\ WF_vars(OrchestratorShutdown)

\* C39: after a shutdown signal has cleared running the system eventually
\* stops: the minute clock loop exits, the reconciliation loop exits and
\* shutdown() runs to completion
C39_SignalStopsTheSystem ==
    (~orch.running) ~>
        (clock.phase = "exited" /\ orch.reconcile_loop = "exited" /\ orch.shutdown # "none")

\* nothing but the end of run() stops the clock loop: while run() is in its
\* try block the loop has not exited and stop() has not been called
ClockLoopOutlivesRun ==
    orch.run = "running" => (clock.phase # "exited" /\ ~clock.stop)

\* the parts of C39 the code keeps: the reconciliation loop exits after a
\* signal, and the clock's stop() is called only once its loop is over, so
\* no tick is dispatched after it
ReconcileLoopExitsAfterSignal ==
    (~orch.running) ~> (orch.reconcile_loop = "exited")

NoTickAfterStop ==
    [][ret'.op = "clock_tick" => ~clock.stop]_vars

\* -------------------------------------------------------- the minute tick
\* the order in which self.teams is iterated
TeamOrder == <<"alpha", "beta">>

\* the tenants whose strategy params set run_24_7
Run247 == {"alpha"}

\* should_run that lets every tenant run in every tick
ShouldRunAlways(t, market_open_now) == TRUE

\* should_run of a tenant in a tick
ShouldRun(t, market_open_now) == t \in Run247 \/ market_open_now

\* the post hook is called only when the feed returned bars
PostHookOnlyWithBars(fetch, persisted) == fetch = "bars" /\ persisted

\* MinuteService._on_minute reaches the post hook: the fetch returned, and
\* with bars to store the write returned too; with no bars it is called
\* with an empty list
PostHookCalled(fetch, persisted) ==
    \/ fetch = "none"
    \/ fetch = "bars" /\ persisted

\* the pre-trade loop appends one snapshot per tenant of self.teams
RECURSIVE PreTradeSnapshots(_, _)
PreTradeSnapshots(log, i) ==
    IF i > Len(TeamOrder) THEN log
    ELSE LET t == TeamOrder[i]
         IN  PreTradeSnapshots(
                 IF t \in teams
                 THEN AppendSnapshot(log, BuildSnapshot(t, cash[t], positions[t],
                                                        EmptyMap, NoSymbol, NoPrice))
                 ELSE log,
                 i + 1)

\* what generate_signal hands back in a tick
TickSignals ==
    {raw \in RawSignals :
        /\ raw.quantity = 1 /\ raw.price = 1 /\ raw.order_type = "market"
        /\ raw.action \in {"buy", "hold"}}

\* what _process_market_data does after the gather, in the order of its
\* statements
PostTradeStages == <<"metrics", "global_snapshot", "fold_check", "runtime_status">>

\* a gather that resumes as soon as one task is done
GatheredFirstCompleted(task) == \E t \in Teams : task[t] = "done"

\* asyncio.gather(*tasks): resumes when every task it was given is done
Gathered(task) == \A t \in Teams : task[t] \in {"none", "done"}

\* after the gather: the global snapshot is appended and the runtime status
\* document is written from the tenants' status entries
FinishTick(t_k) ==
    [t_k EXCEPT !.phase = "idle", !.doc = t_k.status, !.completed = @ + 1,
                !.stages = PostTradeStages]

\* MinuteService._on_minute up to the gather of _process_market_data: fetch,
\* persist, then for every tenant the status entry and the pre-trade
\* snapshot, then one task per tenant that should run
TickPreTrade(fetch, persisted, market_open_now) ==
    LET active == {t \in teams : ShouldRun(t, market_open_now)}
        started == [tk EXCEPT
                      !.n = @ + 1,
                      !.market_open = market_open_now,
                      !.bars = fetch = "bars",
                      !.pre = [t \in Teams |-> IF t \in teams THEN 1 ELSE 0],
                      !.task = [t \in Teams |-> IF t \in active THEN "ready" ELSE "none"],
                      !.outcome = [t \in Teams |-> "-"],
                      !.logged = [t \in Teams |-> 0],
                      !.stages = <<>>,
                      !.status = [t \in Teams |->
                                    IF t \in teams
                                    THEN [active |-> t \in active, error |-> FALSE]
                                    ELSE tk.status[t]],
                      !.phase = "fanout"]
    IN  /\ tk.phase = "idle"
        /\ tk.n < MaxTicks
        /\ IF PostHookCalled(fetch, persisted)
           THEN /\ snapshots' = PreTradeSnapshots(snapshots, 1)
                /\ tk' = IF active = {} THEN FinishTick(started) ELSE started
           ELSE /\ snapshots' = snapshots
                /\ tk' = [tk EXCEPT !.n = @ + 1,
                                    !.pre = [t \in Teams |-> 0],
                                    !.outcome = [t \in Teams |-> "-"],
                                    !.logged = [t \in Teams |-> 0],
                                    !.stages = <<>>]
        /\ ret' = RetOf("tick", PostHookCalled(fetch, persisted),
                        IF fetch = "bars" /\ ~persisted THEN "persist_raised" ELSE fetch)
        /\ UNCHANGED <<teams, brokerPresent, cash, positions, trades, pending_orders,
                       disk_orders, brokerOrders, nextOrderId, errors, restarts, clock, serviceVars>>

\* the next task the event loop runs: tasks start in creation order
NextReady(t) ==
    /\ tk.task[t] = "ready"
    /\ \A i, j \in DOMAIN TeamOrder :
        (TeamOrder[j] = t /\ i < j) => tk.task[TeamOrder[i]] # "ready"

\* _execute_team_strategy up to its await: on first use the strategy is
\* loaded by a plain call on the event loop (module import, constructor and
\* one generate_signal call as IO test), then generate_signal is handed to
\* the executor under wait_for
TaskStart(t, load) ==
    /\ tk.phase = "fanout"
    /\ NextReady(t)
    /\ IF t \in tk.loaded
       THEN load = "cached" /\ tk' = [tk EXCEPT !.task[t] = "awaiting"]
       ELSE CASE load = "ok" ->
                    tk' = [tk EXCEPT !.task[t] = "awaiting", !.loaded = @ \cup {t}]
              [] load = "raises" ->
                    tk' = [tk EXCEPT !.task[t] = "done", !.outcome[t] = "load_failed"]
              [] load = "blocks" ->
                    tk' = [tk EXCEPT !.phase = "blocked", !.blockedBy = t]
              [] OTHER -> FALSE
    /\ ret' = Ret("task_start", t, NoSymbol, "-", 0, NoPrice, "-", load \in {"ok", "cached"}, load)
    /\ UNCHANGED <<teams, brokerPresent, cash, positions, trades, snapshots, pending_orders,
                   disk_orders, brokerOrders, nextOrderId, errors, restarts, clock, serviceVars>>

\* a load that held the event loop returns at last
LoadReturns ==
    /\ tk.phase = "blocked"
    /\ tk' = [tk EXCEPT !.phase = "fanout", !.blockedBy = "-",
                        !.task[tk.blockedBy] = "awaiting",
                        !.loaded = @ \cup {tk.blockedBy}]
    /\ ret' = Ret("load_returns", tk.blockedBy, NoSymbol, "-", 0, NoPrice, "-", TRUE, "-")
    /\ UNCHANGED <<teams, brokerPresent, cash, positions, trades, snapshots, pending_orders,
                   disk_orders, brokerOrders, nextOrderId, errors, restarts, clock, serviceVars>>

\* _execute_team_strategy from the end of its await to its end
TaskSignal(t, sym, raw) ==
    /\ tk.phase = "fanout"
    /\ tk.task[t] = "awaiting"
    /\ ExecuteTeamStrategy(t, sym, raw)
    /\ tk' = [tk EXCEPT !.task[t] = "done",
                        !.outcome[t] = ret'.msg,
                        !.logged[t] = @ + (Len(errors') - Len(errors))]
    /\ UNCHANGED <<clock, serviceVars>>

\* the gather of the strategy tasks resumes _process_market_data
TickFinish ==
    /\ tk.phase = "fanout"
    /\ Gathered(tk.task)
    /\ tk' = FinishTick(tk)
    /\ ret' = RetOf("tick_finish", TRUE, "-")
    /\ UNCHANGED <<teams, brokerPresent, cash, positions, trades, snapshots, pending_orders,
                   disk_orders, brokerOrders, nextOrderId, errors, restarts, clock, serviceVars>>

DoTickPreTrade ==
    \E fetch \in {"bars", "none", "raises"}, persisted \in BOOLEAN, market_open_now \in BOOLEAN :
        TickPreTrade(fetch, persisted, market_open_now)

DoTaskStart ==
    \E t \in teams, load \in {"cached", "ok", "raises", "blocks"} : TaskStart(t, load)

DoTaskSignal ==
    \E t \in teams, sym \in EquitySymbols, raw \in TickSignals : TaskSignal(t, sym, raw)

InitTick == InitWith(Teams, {TRUE})

NextTick == DoTickPreTrade \/ DoTaskStart \/ LoadReturns \/ DoTaskSignal \/ TickFinish

SpecTick == InitTick /\ [][NextTick]_vars

\* the pre-trade snapshot loop of a tick, one line per live tenant
PreTradeLoop ==
    /\ snapshots.count + Cardinality(teams) <= MaxTrades + Cardinality(Teams)
    /\ snapshots' = PreTradeSnapshots(snapshots, 1)
    /\ ret' = RetOf("pre_trade", TRUE, "-")
    /\ UNCHANGED <<teams, brokerPresent, cash, positions, trades, pending_orders,
                   disk_orders, brokerOrders, nextOrderId, errors, restarts, clock, tk,
                   serviceVars>>

\* the executor with storage that can fail, the reconciliation loop and the
\* tick's snapshot loop, over two tenants
NextLedger ==
    \/ DoLedgerExecute
    \/ DoExecuteRecordingRaises
    \/ DoLedgerBrokerFill
    \/ DoReconcile
    \/ \E t \in teams, c \in 0..InitialCash : StrategyWritesTeamIO(t, c)
    \/ PreTradeLoop

SpecLedger == InitTick /\ [][NextLedger]_vars

\* ------------------------------------------- registry and price map of a tick
\* the bars one fetch can return: per symbol the close of its bar, NoPrice
\* for a symbol without a fresh bar
BarSets == [Symbols -> Prices \cup {NoPrice}]

\* current_prices as _process_market_data builds it: the closes of this
\* tick's bars, and the copy of the cache only when the tick has no bar at
\* all; a symbol that is not a key is NoPrice
CurrentPrices(bars) ==
    IF \A s \in Symbols : bars[s] = NoPrice
    THEN market.latest_prices
    ELSE bars

\* _latest_prices after the tick: updated for the symbols that had a bar
LatestPrices(bars) ==
    [s \in Symbols |-> IF bars[s] # NoPrice THEN bars[s] ELSE market.latest_prices[s]]

\* a reconciliation that pops nothing
ReconcilePopsNothing(readable) == teams

\* _reconcile_teams_with_registry: tenants missing from the registry are
\* popped; a registry that cannot be read leaves self.teams alone
ReconcileTeamsWithRegistry(readable) ==
    IF readable THEN teams \cap market.registry ELSE teams

\* the head of _process_market_data: reconcile the tenants, then build the
\* price map handed to the snapshots and the strategies
ProcessMarketData(bars, readable) ==
    /\ teams' = ReconcileTeamsWithRegistry(readable)
    /\ market' = [market EXCEPT !.latest_prices = LatestPrices(bars)]
    /\ ret' = [op |-> "market_data", ok |-> readable, bars |-> bars,
               prices |-> CurrentPrices(bars), had |-> market.latest_prices,
               before |-> teams]
    /\ UNCHANGED <<brokerPresent, cash, positions, trades, snapshots, pending_orders,
                   disk_orders, brokerOrders, nextOrderId, errors, restarts, clock, tk,
                   portfolio, bar_store, units, limiter, lifecycle, rollover, failed_writes, orch>>

\* team_manage add_team / remove_team rewrite the registry file
EditRegistry(registry) ==
    /\ registry # market.registry
    /\ market' = [market EXCEPT !.registry = registry]
    /\ ret' = [op |-> "edit_registry", ok |-> TRUE]
    /\ UNCHANGED <<coreVars, portfolio, bar_store, units, limiter, lifecycle, rollover, failed_writes, orch>>

NextMarket ==
    \/ \E bars \in BarSets, readable \in BOOLEAN : ProcessMarketData(bars, readable)
    \/ \E registry \in SUBSET Teams : EditRegistry(registry)

SpecMarket == InitBroker /\ [][NextMarket]_vars

\* C32: the price map of a tick holds, for every symbol that ever had a bar,
\* the close of its most recent bar; a symbol without a fresh bar keeps its
\* last known price also when other symbols got bars
C32_PriceMapCarriesLastClose ==
    [][ret'.op = "market_data" =>
          \A s \in Symbols :
              /\ ret'.bars[s] # NoPrice => ret'.prices[s] = ret'.bars[s]
              /\ (ret'.bars[s] = NoPrice /\ ret'.had[s] # NoPrice) =>
                     ret'.prices[s] = ret'.had[s]]_vars

\* C33 as stated: after the reconciliation at the start of a tick the live
\* tenant set equals the registry's, a tenant added to the registry included
C33_LiveTenantsEqualRegistry ==
    [][(ret'.op = "market_data" /\ ret'.ok) => teams' = market.registry]_vars

\* C33: after the reconciliation at the start of a tick the live tenants are
\* the tenants that were live before and are still in the registry: a
\* removed tenant is gone, an added one is not loaded; with an unreadable
\* registry the live set is kept
C33_RemovedTenantsDropped ==
    [][ret'.op = "market_data" =>
          teams' = IF ret'.ok THEN teams \cap market.registry ELSE teams]_vars

\* a reconciliation dropped a tenant while the registry names one that is
\* not live
C33_Witness ==
    /\ ret.op = "market_data" /\ ret.ok
    /\ ret.before \ teams # {}
    /\ market.registry \ teams # {}

\* --------------------------------------------------------- day rollover fold
Timestamps == 1..2

SnapshotValues == {1, 2}

\* a line of the day's JSONL log: a snapshot row, or text json.loads rejects
\* (a line cut short when the process died or the disk filled up)
LogLines ==
    [kind : {"row"}, timestamp : Timestamps, market_value : SnapshotValues]
    \cup {[kind |-> "garbage", timestamp |-> 0, market_value |-> 0]}

\* the rows json.loads accepts, in file order
RECURSIVE ParsedRows(_)
ParsedRows(lines) ==
    IF lines = <<>> THEN <<>>
    ELSE IF Head(lines).kind = "row"
         THEN <<Head(lines)>> \o ParsedRows(Tail(lines))
         ELSE ParsedRows(Tail(lines))

\* the rows of a frame that carry timestamp ts
RowsAt(frame, ts) == {frame[i] : i \in {j \in DOMAIN frame : frame[j].timestamp = ts}}

\* the last row of a frame with timestamp ts
LastAt(frame, ts) ==
    LET at == {j \in DOMAIN frame : frame[j].timestamp = ts}
    IN  frame[CHOOSE j \in at : \A k \in at : k <= j]

\* one row per timestamp in ascending order, the row for each timestamp as
\* chosen by pick
RECURSIVE OnePerTimestamp(_, _, _)
OnePerTimestamp(frame, pick, ts) ==
    IF ts > Len(pick) THEN <<>>
    ELSE (IF RowsAt(frame, ts) = {} THEN <<>> ELSE <<pick[ts]>>)
         \o OnePerTimestamp(frame, pick, ts + 1)

\* a stable sort: of the rows sharing a timestamp the last of the frame is kept
SortStableDropDuplicates(frame) ==
    {OnePerTimestamp(frame,
        [ts \in Timestamps |-> IF RowsAt(frame, ts) = {} THEN frame ELSE LastAt(frame, ts)], 1)}

\* df_all.sort_values("timestamp").drop_duplicates(subset=["timestamp"],
\* keep="last"): sort_values sorts with its default kind, quicksort, which
\* does not keep the order of rows with equal timestamps, so which of them
\* comes last and is kept is not determined
SortDropDuplicates(frame) ==
    {OnePerTimestamp(frame, pick, 1) :
        pick \in {p \in [Timestamps -> LogLines] :
                    \A ts \in Timestamps :
                        RowsAt(frame, ts) # {} => p[ts] \in RowsAt(frame, ts)}}

\* appendPortfolioSnapshot: one line appended to the day's log
AppendLogLine(line) ==
    /\ Len(portfolio.log) < MaxLines
    /\ portfolio' = [portfolio EXCEPT !.log = Append(@, line), !.log_exists = TRUE]
    /\ ret' = RetOf("append_line", TRUE, line.kind)
    /\ UNCHANGED <<coreVars, bar_store, units, limiter, lifecycle, rollover, market, failed_writes, orch>>

\* foldDailyPortfolio / foldDailyGlobalPortfolio for the day of the log
FoldDailyPortfolio(readable, written, unlinked) ==
    LET rows == ParsedRows(portfolio.log)
        df_all == IF portfolio.store_exists /\ readable
                  THEN portfolio.store \o rows ELSE rows
        removed == [portfolio EXCEPT !.log = IF unlinked THEN <<>> ELSE @,
                                     !.log_exists = ~unlinked]
    IN  /\ IF ~portfolio.log_exists
           THEN /\ portfolio' = portfolio
                /\ ret' = RetOf("fold", TRUE, "no log")
           ELSE IF rows = <<>>
           THEN /\ portfolio' = removed
                /\ ret' = RetOf("fold", TRUE, "no rows")
           ELSE IF ~written
           THEN /\ portfolio' = portfolio
                /\ ret' = RetOf("fold", FALSE, "write failed")
           ELSE /\ \E merged \in SortDropDuplicates(df_all) :
                    portfolio' = [removed EXCEPT !.store = merged, !.store_exists = TRUE]
                /\ ret' = RetOf("fold", TRUE, "written")
        /\ UNCHANGED <<coreVars, bar_store, units, limiter, lifecycle, rollover, market, failed_writes, orch>>

DoAppendLogLine == \E line \in LogLines : AppendLogLine(line)

DoFold == \E readable, written, unlinked \in BOOLEAN : FoldDailyPortfolio(readable, written, unlinked)

NextFold == DoAppendLogLine \/ DoFold

SpecFold == Init /\ [][NextFold]_vars

\* ----------------------------------------------------------------- bar store
\* batches of bars of one day, by their (ticker, minute) keys
Batches == UNION {[1..n -> BarKeys] : n \in 0..MaxBatch}

\* how often key k occurs in a batch
Occurrences(batch, k) == Cardinality({i \in DOMAIN batch : batch[i] = k})

\* the batch without the bars whose composite key is in the file already:
\* df[~df["composite_key"].isin(existing_df["composite_key"])]
RECURSIVE NewBars(_, _)
NewBars(batch, stored) ==
    IF batch = <<>> THEN <<>>
    ELSE IF stored[Head(batch)] > 0
         THEN NewBars(Tail(batch), stored)
         ELSE <<Head(batch)>> \o NewBars(Tail(batch), stored)

\* ParquetWriter.append and ParquetWriter.writeDay: the rows to write are the
\* batch, filtered against the file when the file exists and can be read
AppendParquet(op, batch, readable) ==
    LET df == IF bar_store.exists /\ readable
              THEN NewBars(batch, bar_store.rows) ELSE batch
    IN  /\ \A k \in BarKeys : bar_store.rows[k] + Occurrences(df, k) <= MaxRows
        /\ bar_store' = IF df = <<>> THEN bar_store
                        ELSE [exists |-> TRUE,
                              rows |-> [k \in BarKeys |->
                                           bar_store.rows[k] + Occurrences(df, k)]]
        /\ ret' = [op |-> op, ok |-> TRUE, batch |-> batch, written |-> Len(df)]
        /\ UNCHANGED <<coreVars, portfolio, units, limiter, lifecycle, rollover, market, failed_writes, orch>>

DoAppendBars == \E batch \in Batches, readable \in BOOLEAN : AppendParquet("append", batch, readable)

DoWriteDay == \E batch \in Batches, readable \in BOOLEAN : AppendParquet("write_day", batch, readable)

NextBars == DoAppendBars \/ DoWriteDay

SpecBars == Init /\ [][NextBars]_vars

\* ------------------------------------------------------- static validation
\* module roots a strategy file may import: a numeric library, a module of
\* the deny-list, and a standard module the deny-list does not name
Modules == {"pandas", "os", "threading"}

\* the part of BLACKLISTED_IMPORTS among Modules
BLACKLISTED_IMPORTS == {"os"}

\* calls in a file: the function called and whether the call names it
\* directly (ast.Name) or through an attribute (ast.Attribute), as in
\* open(path) and io.open(path)
Calls == {"open"} \X {"name", "attribute"}

\* the builtins _scan_file refuses when called by name
DisallowedBuiltins == {"open", "exec", "eval", "__import__"}

\* what a source file holds, as far as the scan looks at it: one import or
\* one call
FileContents ==
    {[imports |-> {m}, calls |-> {}] : m \in Modules} \cup {[imports |-> {}, calls |-> {c}] : c \in Calls}

CodeUnits == [FileNames -> FileContents]

\* _scan_file: raises on an import whose root is in the blacklist and on a
\* call by name of a disallowed builtin; TRUE when it returns
ScanFile(file) ==
    /\ \A m \in file.imports : m \notin BLACKLISTED_IMPORTS
    /\ \A c \in file.calls : ~(c[2] = "name" /\ c[1] \in DisallowedBuiltins)

\* the files ast_sanity_check scans: the entry-point module alone when an
\* entry point is passed, every .py file of the folder otherwise
ScannedFiles(entry_point) == IF entry_point THEN {"strategy"} ELSE FileNames

\* the files whose scan stands behind a unit that came in by this way: the
\* upload endpoint scans the folder, the git sync scans the entry-point
\* module, a repo_dir of the registry is taken as it is
ScannedOnWay(way) ==
    CASE way = "upload" -> ScannedFiles(FALSE)
      [] way = "git_sync" -> ScannedFiles(TRUE)
      [] OTHER -> {}

\* a unit arrives: upload-strategy, _fetch_one, or a registry entry naming
\* its folder; a failed scan rejects the upload and quarantines the clone
Activate(t, way, unit) ==
    LET accepted == \A f \in ScannedOnWay(way) : ScanFile(unit[f])
    IN  /\ units' = IF accepted
                    THEN [units EXCEPT ![t] = [active |-> TRUE, way |-> way, files |-> unit,
                                               scanned |-> ScannedOnWay(way), loaded |-> FALSE]]
                    ELSE units
        /\ ret' = [op |-> "activate", ok |-> accepted, team_id |-> t, way |-> way, unit |-> unit]
        /\ UNCHANGED <<coreVars, portfolio, bar_store, limiter, lifecycle, rollover, market, failed_writes, orch>>

\* _execute_team_strategy on first use: load_strategy_from_folder executes
\* the module, instantiates the class and calls generate_signal
LoadStrategy(t) ==
    /\ units[t].active
    /\ ~units[t].loaded
    /\ units' = [units EXCEPT ![t].loaded = TRUE]
    /\ ret' = [op |-> "load", ok |-> TRUE, team_id |-> t, way |-> units[t].way,
               unit |-> units[t].files]
    /\ UNCHANGED <<coreVars, portfolio, bar_store, limiter, lifecycle, rollover, market, failed_writes, orch>>

NextLoader ==
    \/ \E t \in teams, way \in Ways, unit \in CodeUnits : Activate(t, way, unit)
    \/ \E t \in teams : LoadStrategy(t)

SpecLoader == InitBroker /\ [][NextLoader]_vars

\* ------------------------------------------------- auth failure rate limit
MAX_FAILURES == 5

FAILURE_WINDOW == 60

BLOCK_DURATION == 300

\* seconds the clock moves between two observed events
TimeStep == FAILURE_WINDOW

\* the status codes an endpoint answers with
EndpointStatuses == {200, 401}

\* _clean_old_failures: the failures later than current_time - FAILURE_WINDOW
CleanOldFailures(fs, current_time) ==
    SelectSeq(fs, LAMBDA t : t > current_time - FAILURE_WINDOW)

\* _is_blocked: blocked while current_time is before the stored end
IsBlocked(ip, current_time) ==
    limiter.blocked[ip] # -1 /\ current_time < limiter.blocked[ip]

\* _record_failure: clean, append, and at MAX_FAILURES block the address
\* from current_time on and forget its failures
RecordFailure(l, ip, current_time) ==
    LET fs == Append(CleanOldFailures(l.failures[ip], current_time), current_time)
    IN  IF Len(fs) >= MAX_FAILURES
        THEN [l EXCEPT !.blocked[ip] = current_time + BLOCK_DURATION, !.failures[ip] = <<>>]
        ELSE [l EXCEPT !.failures[ip] = fs]

\* the times of a list that lie less than FAILURE_WINDOW before `now`
Recent(times, now) == SelectSeq(times, LAMBDA t : now - t < FAILURE_WINDOW)

\* time passes
LimiterAdvance ==
    /\ limiter.now + TimeStep <= MaxTime
    /\ limiter' = [limiter EXCEPT !.now = @ + TimeStep,
                                  !.answered = [ip \in IPs |-> Recent(@[ip], limiter.now + TimeStep)]]
    /\ ret' = [op |-> "advance", ok |-> TRUE, ip |-> "-", status |-> 0, invoked |-> FALSE]
    /\ UNCHANGED <<coreVars, portfolio, bar_store, units, lifecycle, rollover, market, failed_writes, orch>>

\* dispatch up to `await call_next(request)`: a blocked address is answered
\* 429 at once (an expired block is deleted); any other request goes on to
\* the endpoint, carrying the time it arrived at
DispatchBegin(ip) ==
    LET current_time == limiter.now
        expired == [limiter EXCEPT !.blocked[ip] = -1]
    IN  IF IsBlocked(ip, current_time)
        THEN /\ limiter' = limiter
             /\ ret' = [op |-> "dispatch", ok |-> TRUE, ip |-> ip, status |-> 429, invoked |-> FALSE]
             /\ UNCHANGED <<coreVars, portfolio, bar_store, units, lifecycle, rollover, market, failed_writes, orch>>
        ELSE /\ BagCardinality(limiter.inflight) < MaxInFlight
             /\ limiter.requests < MaxRequests
             /\ limiter' = [expired EXCEPT !.inflight = @ (+) SetToBag({[ip |-> ip, current_time |-> current_time]}),
                                           !.requests = @ + 1]
             /\ ret' = [op |-> "dispatch", ok |-> TRUE, ip |-> ip, status |-> 0, invoked |-> TRUE]
             /\ UNCHANGED <<coreVars, portfolio, bar_store, units, lifecycle, rollover, market, failed_writes, orch>>

\* a 401 goes back to an address: the last MAX_FAILURES times at which one
\* did, and how many did so far (counted up to MAX_FAILURES)
Answered(l, ip) ==
    LET all == Append(l.answered[ip], l.now)
    IN  [l EXCEPT !.answered[ip] = IF Len(all) > MAX_FAILURES THEN Tail(all) ELSE all,
                  !.failed[ip] = IF @ < MAX_FAILURES THEN @ + 1 ELSE @]

\* dispatch from the endpoint's response on: a 401 is recorded under the
\* time the request arrived at, and the response goes back
DispatchEnd(req, status) ==
    LET rest == [limiter EXCEPT !.inflight = @ (-) SetToBag({req})]
    IN  /\ limiter' = IF status = 401
                      THEN Answered(RecordFailure(rest, req.ip, req.current_time), req.ip)
                      ELSE rest
        /\ ret' = [op |-> "response", ok |-> TRUE, ip |-> req.ip, status |-> status, invoked |-> TRUE]
        /\ UNCHANGED <<coreVars, portfolio, bar_store, units, lifecycle, rollover, market, failed_writes, orch>>

NextLimiter ==
    \/ LimiterAdvance
    \/ \E ip \in IPs : DispatchBegin(ip)
    \/ \E req \in BagToSet(limiter.inflight), status \in EndpointStatuses : DispatchEnd(req, status)

SpecLimiter == InitBroker /\ [][NextLimiter]_vars

\* --------------------------------------------------------- server lifecycle
\* the timeouts shutdown() is called with, in seconds
Timeouts == {0, 1, 6}

\* the cap of the wait, in seconds
WaitCap == 5

\* a wait as long as the caller asks for
WaitTimeUncapped(timeout) == timeout

\* wait_time = min(timeout, 5.0)
WaitTime(timeout) == IF timeout < WaitCap THEN timeout ELSE WaitCap

\* a loop that ends at the first queue whose put raises (in the worst
\* order of the set, before any other queue)
SignalledUntilError(l) ==
    IF \E q \in l.tracked : l.kind[q] # "ok" THEN {} ELSE l.tracked

\* the queues put_nowait(None) succeeds on, each put in its own try
Signalled(l) == {q \in l.tracked : l.kind[q] = "ok"}

\* track_sse_connection, with what the queue will do on a put
Track(q, kind) ==
    /\ q \notin lifecycle.tracked
    /\ lifecycle' = [lifecycle EXCEPT !.tracked = @ \cup {q}, !.kind[q] = kind, !.sentinel = @ \ {q}]
    /\ ret' = [op |-> "track", ok |-> TRUE, queue |-> q]
    /\ UNCHANGED <<coreVars, portfolio, bar_store, units, limiter, rollover, market, failed_writes, orch>>

\* untrack_sse_connection: the connection's generator ends
Untrack(q) ==
    /\ q \in lifecycle.tracked
    /\ lifecycle' = [lifecycle EXCEPT !.tracked = @ \ {q}]
    /\ ret' = [op |-> "untrack", ok |-> TRUE, queue |-> q]
    /\ UNCHANGED <<coreVars, portfolio, bar_store, units, limiter, rollover, market, failed_writes, orch>>

\* shutdown() up to its await: set the flag, signal the tracked queues and
\* start the bounded wait; with nothing tracked it returns at once
Shutdown(timeout) ==
    /\ lifecycle.phase # "waiting"
    /\ lifecycle.shutdowns < MaxShutdowns
    /\ lifecycle' = [lifecycle EXCEPT !.is_shutting_down = TRUE,
                                      !.sentinel = @ \cup Signalled(lifecycle),
                                      !.phase = IF lifecycle.tracked = {} THEN "returned" ELSE "waiting",
                                      !.wait_time = WaitTime(timeout),
                                      !.elapsed = 0,
                                      !.shutdowns = @ + 1]
    /\ ret' = [op |-> "shutdown", ok |-> TRUE, queue |-> "-"]
    /\ UNCHANGED <<coreVars, portfolio, bar_store, units, limiter, rollover, market, failed_writes, orch>>

\* a second passes while shutdown() waits
Sleep ==
    /\ lifecycle.phase = "waiting"
    /\ lifecycle.elapsed < lifecycle.wait_time
    /\ lifecycle' = [lifecycle EXCEPT !.elapsed = @ + 1]
    /\ ret' = [op |-> "sleep", ok |-> TRUE, queue |-> "-"]
    /\ UNCHANGED <<coreVars, portfolio, bar_store, units, limiter, rollover, market, failed_writes, orch>>

\* _wait_for_sse_close finds no queue tracked: shutdown() returns
WaitForSseClose ==
    /\ lifecycle.phase = "waiting"
    /\ lifecycle.tracked = {}
    /\ lifecycle' = [lifecycle EXCEPT !.phase = "returned"]
    /\ ret' = [op |-> "closed", ok |-> TRUE, queue |-> "-"]
    /\ UNCHANGED <<coreVars, portfolio, bar_store, units, limiter, rollover, market, failed_writes, orch>>

\* asyncio.wait_for runs out: TimeoutError is swallowed, shutdown() returns
WaitTimesOut ==
    /\ lifecycle.phase = "waiting"
    /\ lifecycle.elapsed >= lifecycle.wait_time
    /\ lifecycle' = [lifecycle EXCEPT !.phase = "returned"]
    /\ ret' = [op |-> "timeout", ok |-> TRUE, queue |-> "-"]
    /\ UNCHANGED <<coreVars, portfolio, bar_store, units, limiter, rollover, market, failed_writes, orch>>

NextLifecycle ==
    \/ \E q \in Queues, kind \in QueueKinds : Track(q, kind)
    \/ \E q \in Queues : Untrack(q)
    \/ \E timeout \in Timeouts : Shutdown(timeout)
    \/ Sleep
    \/ WaitForSseClose
    \/ WaitTimesOut

SpecLifecycle == InitBroker /\ [][NextLifecycle]_vars

\* the event loop keeps running its timers
SpecLifecycleLive == SpecLifecycle /\ WF_vars(Sleep) /\ WF_vars(WaitTimesOut)

\* -------------------------------------------------------------- day rollover
\* one tick on the current day: the pre-trade snapshot goes to the log of
\* the day of minute_mark (the newest bar's minute, which may lie on the day
\* before), and the day-rollover check folds yesterday's log once per day,
\* marking the day as folded whether or not the fold raised; line counts
\* are followed up to MaxLines
RolloverTick(stamp_day, written) ==
    LET Capped(n) == IF n < MaxLines THEN n ELSE MaxLines
        appended == [rollover EXCEPT !.log[stamp_day] = Capped(@ + 1)]
        prev == rollover.today - 1
        folds == /\ rollover.last_fold_day # rollover.today
                 /\ prev \in Days
                 /\ appended.log[prev] > 0
                 /\ written
        folded == IF folds
                  THEN [appended EXCEPT !.store[prev] = Capped(@ + appended.log[prev]), !.log[prev] = 0]
                  ELSE appended
    IN  /\ stamp_day \in Days
        /\ stamp_day \in {rollover.today, rollover.today - 1}
        /\ rollover' = [folded EXCEPT !.last_fold_day = rollover.today]
        /\ ret' = RetOf("rollover_tick", written, IF folds THEN "folded" ELSE "-")
        /\ UNCHANGED <<coreVars, portfolio, bar_store, units, limiter, lifecycle, market, failed_writes, orch>>

\* midnight UTC passes
NextDay ==
    /\ rollover.today < MaxDay
    /\ rollover' = [rollover EXCEPT !.today = @ + 1]
    /\ ret' = RetOf("next_day", TRUE, "-")
    /\ UNCHANGED <<coreVars, portfolio, bar_store, units, limiter, lifecycle, market, failed_writes, orch>>

NextRollover ==
    \/ \E stamp_day \in Days, written \in BOOLEAN : RolloverTick(stamp_day, written)
    \/ NextDay

\* ticks keep firing, and store writes succeed again and again
SpecRolloverLive ==
    /\ InitBroker
    /\ [][NextRollover]_vars
    /\ WF_vars(NextRollover)
    /\ SF_vars(\E stamp_day \in Days : RolloverTick(stamp_day, TRUE))

\* ============================================================ properties
\* The step just taken is a return of execute() that got past the trading
\* session check; ret' holds the request and the (ok, message) returned.
ExecuteReturns == ret'.op = "execute" /\ ret'.msg # "Market closed"

\* the step appended a TradeRecord and a snapshot: the trade was applied
Applied == trades'.count = trades.count + 1

LedgerUnchanged == cash' = cash /\ positions' = positions

\* the broker took a new order in this step
BrokerAccepted == DOMAIN brokerOrders' # DOMAIN brokerOrders

\* a PendingOrder for the request of ret' is held under the id just handed out
HoldsPendingOrder ==
    /\ nextOrderId' = nextOrderId + 1
    /\ nextOrderId' \in DOMAIN pending_orders'
    /\ nextOrderId' \notin DOMAIN pending_orders
    /\ LET order == pending_orders'[nextOrderId']
       IN  /\ order.team_id = ret'.team_id
           /\ order.symbol = ret'.symbol
           /\ order.side = ret'.side
           /\ order.quantity = ret'.quantity
           /\ order.limit_price = ret'.price
           /\ order.status = "new"

\* C1 as stated: every execute() of a limit order leaves cash and positions
\* as they were, and a success return means a PendingOrder for the request
\* is held by the tracker, whether a broker is configured, absent or raising.
C1_LimitNeverTouchesLedger ==
    [][(ExecuteReturns /\ ret'.order_type = "limit") =>
          /\ LedgerUnchanged
          /\ ret'.ok => HoldsPendingOrder]_vars

\* C1 amended: a limit order the configured broker accepts leaves cash,
\* positions and the trade log as they were, returns success and is held by
\* the tracker as a PendingOrder; a limit order with no broker configured
\* or with the broker raising on submission is never held as pending, and
\* when it returns success it was applied at once as a local trade at the
\* requested price.
C1_AcceptedLimitIsPending ==
    [][(ExecuteReturns /\ ret'.order_type = "limit") =>
          IF BrokerAccepted
          THEN /\ LedgerUnchanged
               /\ trades' = trades /\ snapshots' = snapshots
               /\ ret'.ok /\ ret'.msg = "Limit order placed"
               /\ HoldsPendingOrder
          ELSE /\ pending_orders' = pending_orders
               /\ nextOrderId' = nextOrderId
               /\ ret'.ok =>
                    /\ Applied
                    /\ trades'.last.order_type = "limit"
                    /\ trades'.last.execution_price = ret'.price
                    /\ trades'.last.broker_order_id = NoOrderId
                    /\ cash'[ret'.team_id] - cash[ret'.team_id] =
                         IF ret'.side = "buy" THEN -(ret'.quantity * ret'.price)
                         ELSE ret'.quantity * ret'.price]_vars

\* a limit order was applied locally after the broker raised, and a later
\* one was accepted and is pending
C1_Witness ==
    /\ brokerPresent
    /\ trades.count = 1
    /\ trades.last.order_type = "limit"
    /\ trades.last.broker_order_id = NoOrderId
    /\ ret.op = "execute" /\ ret.order_type = "limit"
    /\ ret.msg = "Limit order placed"
    /\ nextOrderId \in DOMAIN pending_orders

\* C5 as stated: in every reachable state every tenant's cash is >= 0 and
\* every stored position has a quantity > 0.
C5_NoMarginNoShort ==
    \A t \in teams :
        /\ cash[t] >= 0
        /\ \A sym \in Symbols :
              positions[t][sym] # NoPosition => positions[t][sym].quantity > 0

\* C7 as stated: execute() of a BUY returns success only if cash >=
\* quantity x price at the call, and a successful applied BUY decreases
\* cash by exactly quantity x (requested) price.
C7_BuyChargesRequestedPrice ==
    [][(ExecuteReturns /\ ret'.side = "buy" /\ ret'.ok) =>
          LET t == ret'.team_id
          IN  /\ cash[t] >= ret'.quantity * ret'.price
              /\ Applied => cash'[t] = cash[t] - ret'.quantity * ret'.price]_vars

\* C7 amended: execute() of a BUY returns success only if cash >= quantity
\* x requested price at the call; a successful applied BUY decreases cash
\* by exactly quantity x execution price, the execution price being the
\* fill price the broker reports for a market order it accepted and the
\* requested price for every other applied order; a successful BUY that is
\* not applied (a limit order placed) leaves cash as it was.
C7_BuyChargesExecutionPrice ==
    [][(ExecuteReturns /\ ret'.side = "buy" /\ ret'.ok) =>
          LET t == ret'.team_id
              tr == trades'.last
          IN  /\ cash[t] >= ret'.quantity * ret'.price
              /\ IF Applied
                 THEN /\ cash'[t] = cash[t] - ret'.quantity * tr.execution_price
                      /\ tr.requested_price = ret'.price
                      /\ tr.quantity = ret'.quantity
                      /\ (tr.order_type # "market" \/ tr.broker_order_id = NoOrderId)
                            => tr.execution_price = ret'.price
                 ELSE cash' = cash]_vars

\* a market BUY filled by the broker at another price than requested, and
\* charged at the fill price
C7_Witness ==
    /\ ret.op = "execute" /\ ret.side = "buy" /\ ret.ok
    /\ ret.order_type = "market"
    /\ trades.count = 1
    /\ trades.last.broker_order_id # NoOrderId
    /\ trades.last.execution_price # ret.price
    /\ cash[ret.team_id] = InitialCash - ret.quantity * trades.last.execution_price

\* the position the request of ret' is about, before and after the step
HeldBefore == positions[ret'.team_id][ret'.symbol]

HeldAfter == positions'[ret'.team_id][ret'.symbol]

\* C8 as stated: execute() of a SELL returns success only if a position of
\* at least the requested quantity is held; a successful SELL of the whole
\* position removes it, a partial one leaves the quantity reduced by the
\* sold amount, and cash increases by exactly quantity x (requested) price.
C8_SellCreditsRequestedPrice ==
    [][(ExecuteReturns /\ ret'.side = "sell" /\ ret'.ok) =>
          LET t == ret'.team_id
          IN  /\ HeldBefore # NoPosition
              /\ HeldBefore.quantity >= ret'.quantity
              /\ IF HeldBefore.quantity = ret'.quantity
                 THEN HeldAfter = NoPosition
                 ELSE HeldAfter.quantity = HeldBefore.quantity - ret'.quantity
              /\ cash'[t] = cash[t] + ret'.quantity * ret'.price]_vars

\* C8 amended: execute() of a SELL returns success only if a position of at
\* least the requested quantity is held; a successful applied SELL of the
\* whole position removes it, a partial one leaves the quantity reduced by
\* the sold amount with avgCost as it was, and cash increases by exactly
\* quantity x execution price (the broker's fill price for a market order
\* it accepted, the requested price otherwise); a successful SELL that is
\* not applied (a limit order placed) leaves cash and positions as they were.
C8_SellCreditsExecutionPrice ==
    [][(ExecuteReturns /\ ret'.side = "sell" /\ ret'.ok) =>
          LET t == ret'.team_id
              tr == trades'.last
          IN  /\ HeldBefore # NoPosition
              /\ HeldBefore.quantity >= ret'.quantity
              /\ IF Applied
                 THEN /\ IF HeldBefore.quantity = ret'.quantity
                         THEN HeldAfter = NoPosition
                         ELSE /\ HeldAfter.quantity =
                                   HeldBefore.quantity - ret'.quantity
                              /\ HeldAfter.avgCost = HeldBefore.avgCost
                      /\ cash'[t] = cash[t] + ret'.quantity * tr.execution_price
                      /\ (tr.order_type # "market" \/ tr.broker_order_id = NoOrderId)
                            => tr.execution_price = ret'.price
                 ELSE /\ LedgerUnchanged
                      /\ ret'.msg = "Limit order placed"]_vars

\* the whole position was sold by a market order the broker filled at
\* another price than requested; the position is gone
C8_Witness ==
    /\ ret.op = "execute" /\ ret.side = "sell" /\ ret.ok
    /\ trades.count = 2
    /\ trades.last.side = "sell"
    /\ trades.last.execution_price # trades.last.requested_price
    /\ positions[ret.team_id][ret.symbol] = NoPosition

\* C9 as stated: every stored position has costBasis = quantity x avgCost
\* (both kept with DecimalPlaces fractional digits).
C9_CostBasisIsQuantityTimesAvgCost ==
    \A t \in teams, sym \in Symbols :
        positions[t][sym] # NoPosition =>
            positions[t][sym].costBasis =
                positions[t][sym].quantity * positions[t][sym].avgCost

\* the validation rule, read off the state before the call and the request
InsufficientFunds ==
    ret'.side = "buy" /\ cash[ret'.team_id] < ret'.quantity * ret'.price

InsufficientPosition ==
    ret'.side = "sell" /\
        (HeldBefore = NoPosition \/ HeldBefore.quantity < ret'.quantity)

\* C10: a BUY with insufficient cash and a SELL of an unheld or too small
\* position make execute() return failure with nothing changed: cash,
\* positions, trade log, snapshot log, pending index and its file are as
\* before and the broker has no new order.
C10_RefusedTradeChangesNothing ==
    [][(ExecuteReturns /\ (InsufficientFunds \/ InsufficientPosition)) =>
          /\ ~ret'.ok
          /\ ret'.msg = "Trade validation failed"
          /\ UNCHANGED <<cash, positions, trades, snapshots, pending_orders,
                         disk_orders, brokerOrders, nextOrderId>>]_vars

\* after one applied trade, a BUY the remaining cash cannot pay was refused
\* and the logs still hold the one trade and its snapshot
C10_Witness ==
    /\ ret.op = "execute" /\ ret.msg = "Trade validation failed"
    /\ ret.side = "buy"
    /\ cash[ret.team_id] < ret.quantity * ret.price
    /\ trades.count = 1 /\ snapshots.count = 1

\* ------------------------------------------------------- pending orders
\* order o leaves the pending index in this step
Removed(o) == o \in DOMAIN pending_orders /\ o \notin DOMAIN pending_orders'

\* the TradeRecords this step appends for order o
RecordsAppended(o) == trades'.by_order[o] - trades.by_order[o]

\* the broker reports the order filled, with a price
BrokerFilled(o) ==
    /\ o \in DOMAIN brokerOrders
    /\ brokerOrders[o].status = "filled"
    /\ brokerOrders[o].filled_avg_price # NoPrice

\* a reconciliation pass in which order o, and no other, goes from open to
\* filled
FillStepOf(o) ==
    /\ ret'.op = "reconcile"
    /\ BrokerFilled(o)
    /\ DOMAIN pending_orders \ DOMAIN pending_orders' = {o}

\* the ledger took the fill of order o
LedgerTookFill(o) ==
    LET order == pending_orders[o]
        t == order.team_id
        sym == order.symbol
        value == order.quantity * brokerOrders[o].filled_avg_price
    IN  IF order.side = "buy"
        THEN /\ positions'[t][sym].quantity =
                  positions[t][sym].quantity + order.quantity
             /\ cash'[t] = cash[t] - value
        ELSE /\ positions'[t][sym].quantity =
                  positions[t][sym].quantity - order.quantity
             /\ cash'[t] = cash[t] + value

\* C2 as stated: in the step a limit order goes to filled the owning
\* tenant's ledger takes the fill (buy: position up by the quantity, cash
\* down by quantity x fill price; sell: the reverse), and a limit order
\* changes the ledger in no other step.
C2_FillUpdatesLedger ==
    [][/\ \A o \in OrderIds : FillStepOf(o) => LedgerTookFill(o)
       /\ ~LedgerUnchanged => \E o \in OrderIds : FillStepOf(o)]_vars

C4_RestartLoadsOpenOrdersOnly ==
    [][/\ ret'.op = "restart" =>
            DOMAIN pending_orders' =
               {o \in DOMAIN pending_orders :
                   pending_orders[o].status \notin
                       TerminalStatuses \cup BrokerTerminal}
       /\ \A o \in OrderIds : trades'.by_order[o] <= 1]_vars

\* --------------------------------------------------------------- signals
\* the step handled a returned dict that is off the strict schema
OffSchemaSignal ==
    /\ ret'.op = "strategy"
    /\ ret'.msg \notin {"no signal", "signal_generation"}
    /\ \/ ret'.symbol = NoSymbol
       \/ ret'.side \notin Sides
       \/ ret'.quantity <= 0
       \/ ret'.price <= 0
       \/ ret'.order_type \notin {"market", "limit"}

\* C6 as stated: a returned signal off the schema (action not buy/sell,
\* quantity <= 0, price <= 0, order_type not market/limit, a required field
\* missing) is not traded, leaves the ledger as it was and adds one entry
\* to the tenant's error log.
C6_OffSchemaSignalIsLogged ==
    [][OffSchemaSignal =>
          /\ LedgerUnchanged
          /\ trades' = trades /\ nextOrderId' = nextOrderId
          /\ Len(errors') = Len(errors) + 1
          /\ errors'[Len(errors')].team_id = ret'.team_id]_vars

\* ---------------------------------------------------- reconciliation pass
ReconcileStep == ret'.op = "reconcile"

\* order o carries what the broker reports after the step
ShowsBrokerState(o) ==
    LET b == brokerOrders[o]
    IN  IF BrokerFilled(o)
        THEN Removed(o)
        ELSE /\ o \in DOMAIN pending_orders'
             /\ pending_orders'[o].status = b.status
             /\ b.filled_qty # 0 => pending_orders'[o].filled_qty = b.filled_qty
             /\ b.filled_avg_price # NoPrice =>
                    pending_orders'[o].filled_avg_price = b.filled_avg_price

\* C18: a reconciliation pass asks the broker about every order in the index;
\* an order whose lookup fails is left exactly as it was, and every other
\* order, before or after it, is brought to the broker's reported state.
C18_FailedLookupStopsNothing ==
    [][ReconcileStep =>
        \A o \in DOMAIN pending_orders :
            IF o \in ret'.failing
            THEN /\ o \in DOMAIN pending_orders'
                 /\ pending_orders'[o] = pending_orders[o]
            ELSE ShowsBrokerState(o)]_vars

\* a pass in which an earlier order's lookup failed, leaving it stale, and a
\* later order was brought to the broker's state
C18_Witness ==
    /\ ret.op = "reconcile"
    /\ \E f \in ret.failing, o \in DOMAIN brokerOrders \ ret.failing :
        /\ f < o
        /\ f \in DOMAIN pending_orders
        /\ pending_orders[f].status = "new"
        /\ brokerOrders[f].status # "new"
        /\ brokerOrders[o].status # "new"
        /\ \/ o \notin DOMAIN pending_orders
           \/ pending_orders[o].status = brokerOrders[o].status

\* C19: an order the pass finds filled, canceled, rejected or expired at the
\* broker is out of the index after the pass, so no later pass asks about it.
C19_TerminalOrderLeavesIndex ==
    [][ReconcileStep =>
        \A o \in DOMAIN pending_orders \ ret'.failing :
            brokerOrders[o].status \in BrokerTerminal => Removed(o)]_vars

\* C20: get_open_orders returns the tenant's orders and none that the broker
\* has reported filled, canceled, rejected or expired.
C20_OpenOrdersAreNotTerminal ==
    [][ret'.op = "get_open_orders" =>
        /\ \A o \in ret'.result :
            /\ pending_orders[o].team_id = ret'.team_id
            /\ pending_orders[o].status \notin BrokerTerminal
        /\ \A o \in DOMAIN pending_orders :
            (/\ pending_orders[o].team_id = ret'.team_id
             /\ pending_orders[o].status \notin BrokerTerminal)
                => o \in ret'.result]_vars

\* ------------------------------------------------------------ minute clock
\* the handler calls of the current tick that are still in flight
InFlight == {r \in clock.running : r[2] = clock.tick}

\* C16: ticks never overlap: every handler call in flight belongs to the
\* current tick, and the clock starts a tick only when no call of the tick
\* before it is still running.
C16_TicksNeverOverlap ==
    /\ [](clock.running = InFlight)
    /\ [][clock'.tick # clock.tick => clock.running = {}]_vars

\* the second tick's handlers are running after the first tick's have ended
C16_Witness ==
    /\ clock.tick = MaxTicks
    /\ clock.phase = "gathering"
    /\ InFlight # {}

\* handler h raises in this step
Raises(h) == ret'.op = "handler" /\ ~ret'.ok /\ ret'.msg = h

\* C17: a handler that raises ends only its own call: the other handlers of
\* the tick stay in flight until they end themselves, the loop leaves only
\* after stop(), and the tick after the one with the failure is fired.
C17_RaisingHandlerStopsNothing ==
    /\ [][\A h \in Handlers : Raises(h) =>
            /\ clock.running \ clock'.running = {<<h, clock.tick>>}
            /\ clock'.phase = clock.phase]_vars
    /\ [][ret'.op = "clock_gathered" => clock.running = {}]_vars
    /\ [](clock.phase = "exited" => clock.stop)
    /\ \A n \in 1..(MaxTicks - 1) :
        (clock.tick = n /\ \E h \in Handlers : clock.results[h] = "raised")
            ~> (clock.tick = n + 1 \/ clock.stop)

\* a tick is under way after a tick in which a handler raised
C17_Witness ==
    /\ clock.tick > 1
    /\ clock.phase = "gathering"
    /\ clock.logged > 0
    /\ ~clock.stop

\* -------------------------------------------------------- the minute tick
\* a tick whose feed returned, with bars that were stored or with none
FeedReturned == ret'.op = "tick" /\ ret'.msg \in {"bars", "none"}

\* a step of the strategy fan-out or the closing of the tick
AfterPreTrade == ret'.op \in {"task_start", "load_returns", "strategy", "tick_finish"}

\* snapshot lines the pre-trade phase of the current tick wrote
PreTradeLines == Cardinality({t \in Teams : tk'.pre[t] = 1})

SchemaValidSignal ==
    /\ ret'.op = "strategy"
    /\ ret'.msg \notin {"no signal", "signal_generation"}
    /\ ret'.symbol # NoSymbol
    /\ ret'.side \in Sides

\* the tenant's task ended in TradeExecutor.execute
HandedToExecute == tk'.outcome[ret'.team_id] = "executed"

\* C11: every schema-valid signal an active tenant's strategy returns in a
\* tick is handed to TradeExecutor.execute in that tick.
C11_ValidSignalReachesExecute ==
    [][SchemaValidSignal => HandedToExecute]_vars

\* C13: while one tenant's strategy blocks, no sibling's task is kept from
\* running or from having its result taken: the event loop is never held
\* by one tenant's strategy while a sibling's task is unfinished.
C13_BlockingStrategyHoldsNoSibling ==
    tk.phase = "blocked" =>
        \A s \in teams \ {tk.blockedBy} : tk.task[s] \notin {"ready", "awaiting"}

\* the ways a tenant's part of a tick fails
TenantFailures == {"load_failed", "signal_generation", "signal_validation"}

\* C14: a tenant whose load, signal call or validation fails keeps its cash
\* and positions, every other active tenant's valid signal is still executed
\* in the tick, and the tick still writes its global snapshot and status.
C14_TenantFailureIsIsolated ==
    /\ [][(ret'.op \in {"task_start", "strategy"} /\ ~ret'.ok) => LedgerUnchanged]_vars
    /\ [][(/\ SchemaValidSignal
           /\ \E t \in teams \ {ret'.team_id} : tk.outcome[t] \in TenantFailures)
             => HandedToExecute]_vars
    /\ [][ret'.op = "tick_finish" => tk'.completed = tk.completed + 1]_vars

\* C15: when the tick writes the runtime status document, every tenant whose
\* part of the tick failed has an entry in its error log from this tick and
\* an error in its entry of the document.
C15_TenantFailureIsVisible ==
    [][ret'.op = "tick_finish" =>
        \A t \in teams :
            tk.outcome[t] \in TenantFailures =>
                /\ tk.logged[t] >= 1
                /\ tk'.doc[t].error]_vars

\* --------------------------------------------------------- day rollover fold
FoldStep == ret'.op = "fold"

\* the step removes the day's log
LogDeleted == portfolio.log_exists /\ ~portfolio'.log_exists

\* the log holds a line that cannot be turned into a row
HasUnmergeableLine == \E i \in DOMAIN portfolio.log : portfolio.log[i].kind = "garbage"

\* C21: a fold deletes the day's log only in a step that wrote the merged
\* store; when the write fails, or a line of the log cannot be merged, the
\* log is there afterwards with all its lines.
C21_LogDeletedOnlyAfterMergeWrite ==
    [][FoldStep =>
        /\ LogDeleted => ret'.msg = "written"
        /\ ret'.msg = "write failed" => portfolio' = portfolio
        /\ (portfolio.log_exists /\ HasUnmergeableLine) =>
                /\ portfolio'.log_exists
                /\ portfolio'.log = portfolio.log]_vars

\* the timestamps of a frame's rows
TimestampsOf(frame) == {frame[i].timestamp : i \in DOMAIN frame}

\* the step folds a log all of whose rows the store already holds: the
\* content of an earlier fold, folded again
FoldsAgain ==
    /\ FoldStep
    /\ ret'.msg = "written"
    /\ portfolio.store_exists
    /\ TimestampsOf(ParsedRows(portfolio.log)) \subseteq TimestampsOf(portfolio.store)
    /\ \A ts \in TimestampsOf(ParsedRows(portfolio.log)) :
            LastAt(portfolio.store, ts) = LastAt(ParsedRows(portfolio.log), ts)

\* C22: the store a fold writes has one row per timestamp, for a timestamp
\* of the log that row is the last line of the log with it, and folding a
\* log whose latest rows the store already holds leaves the store as it is.
C22_FoldIsIdempotentLatestWins ==
    [][(FoldStep /\ ret'.msg = "written") =>
        /\ \A i, j \in DOMAIN portfolio'.store :
                portfolio'.store[i].timestamp = portfolio'.store[j].timestamp => i = j
        /\ \A ts \in TimestampsOf(ParsedRows(portfolio.log)) :
                LastAt(portfolio'.store, ts) = LastAt(ParsedRows(portfolio.log), ts)
        /\ FoldsAgain => portfolio'.store = portfolio.store]_vars

\* ----------------------------------------------------------------- bar store
BarStep == ret'.op \in {"append", "write_day"}

\* C23: the bar file never holds two rows for one (ticker, minute): a bar
\* that is stored already adds no row when it is appended again, and a batch
\* holding one (ticker, minute) twice adds at most one row for it.
C23_OneRowPerSymbolMinute ==
    /\ [](\A k \in BarKeys : bar_store.rows[k] <= 1)
    /\ [][BarStep =>
            \A k \in BarKeys :
                /\ bar_store.rows[k] > 0 => bar_store'.rows[k] = bar_store.rows[k]
                /\ bar_store'.rows[k] <= bar_store.rows[k] + 1]_vars

\* ------------------------------------------------------- static validation
\* the allow-list the contract declares: numeric and statistics libraries
AllowList == {"pandas"}

\* a file that keeps to the contract: allowed imports only, and no call of a
\* dynamic-execution, file or process primitive, by name or through a module
KeepsContract(file) == file.imports \subseteq AllowList /\ file.calls = {}

\* C25: static validation fails closed. A code unit the upload endpoint
\* accepts has, in every source file, only imports of explicitly allowed
\* modules and no call of a dynamic-execution, file or process primitive.
C25_ValidationFailsClosed ==
    [][(ret'.op = "activate" /\ ret'.way = "upload" /\ ret'.ok)
        => \A f \in FileNames : KeepsContract(ret'.unit[f])]_vars

\* C24: no strategy class is instantiated and no generate_signal is called
\* unless every source file of the tenant's code unit passed static
\* validation before, whichever way the unit became active.
C24_NoLoadWithoutValidation ==
    [][ret'.op = "load" => units[ret'.team_id].scanned = FileNames]_vars

\* --------------------------------------------------- auth failure rate limit
\* the limiter's own record of an address
Tracked(ip) == <<limiter.failures[ip], limiter.blocked[ip]>>

\* MAX_FAILURES responses 401 went back to the address within the
\* FAILURE_WINDOW before now
FailedInWindow(ip) == Len(Recent(limiter.answered[ip], limiter.now)) >= MAX_FAILURES

\* the rest of C26: an address with fewer than MAX_FAILURES responses 401
\* is never answered 429, a response other than 401 changes no record, and
\* a response to one address leaves the record of every other address alone
BlocksNothingElse ==
    [][/\ (ret'.op = "dispatch" /\ limiter.failed[ret'.ip] < MAX_FAILURES) => ret'.invoked
       /\ (ret'.op = "response" /\ ret'.status # 401) => \A ip \in IPs : Tracked(ip)' = Tracked(ip)
       /\ ret'.op = "response" => \A ip \in IPs \ {ret'.ip} : Tracked(ip)' = Tracked(ip)]_vars

\* C26: once MAX_FAILURES responses 401 went back to one address within
\* FAILURE_WINDOW seconds, its next request is answered 429 without the
\* endpoint being invoked; fewer failures never block, other responses never
\* count, and other addresses are passed through.
C26_BlocksAfterFiveFailures ==
    [][/\ (ret'.op = "dispatch" /\ FailedInWindow(ret'.ip)) => (ret'.status = 429 /\ ~ret'.invoked)
       /\ (ret'.op = "dispatch" /\ limiter.failed[ret'.ip] < MAX_FAILURES) => ret'.invoked
       /\ (ret'.op = "response" /\ ret'.status # 401) => \A ip \in IPs : Tracked(ip)' = Tracked(ip)
       /\ ret'.op = "response" => \A ip \in IPs \ {ret'.ip} : Tracked(ip)' = Tracked(ip)]_vars

\* --------------------------------------------------------- server lifecycle
\* C27: shutdown() sets is_shutting_down, which stays true afterwards and
\* across repeated shutdowns, and puts the None sentinel on every queue that
\* is tracked when it is called and accepts a put; a tracked queue that is
\* full or raises on the put does not keep the others from being signalled.
C27_ShutdownSignalsEveryQueue ==
    [][/\ lifecycle.is_shutting_down => lifecycle'.is_shutting_down
       /\ ret'.op = "shutdown" =>
            /\ lifecycle'.is_shutting_down
            /\ \A q \in lifecycle.tracked : lifecycle.kind[q] = "ok" => q \in lifecycle'.sentinel]_vars

\* a repeated shutdown has signalled one queue while the other tracked queue
\* was full or raised
C27_Witness ==
    /\ ret.op = "shutdown"
    /\ lifecycle.shutdowns = 2
    /\ \E q \in lifecycle.tracked : lifecycle.kind[q] # "ok" /\ q \notin lifecycle.sentinel
    /\ \E q \in lifecycle.tracked : lifecycle.kind[q] = "ok" /\ q \in lifecycle.sentinel

\* C28: shutdown(timeout) always returns: at once when nothing is tracked
\* or as soon as every connection is untracked, and otherwise when the
\* wait of min(timeout, 5) seconds runs out, also when a connection never
\* closes or new connections keep being tracked; it never waits longer
\* than 5 seconds.
C28_ShutdownAlwaysReturns ==
    /\ [](lifecycle.phase = "waiting" => lifecycle.elapsed <= WaitCap)
    /\ [][ret'.op = "closed" => lifecycle.tracked = {}]_vars
    /\ [][ret'.op = "timeout" => lifecycle.elapsed = lifecycle.wait_time]_vars
    /\ (lifecycle.phase = "waiting" ~> lifecycle.phase = "returned")

\* a shutdown called with a timeout above the cap gave up after the capped
\* wait with a connection still tracked
C28_Witness ==
    /\ ret.op = "timeout"
    /\ lifecycle.elapsed = WaitCap
    /\ lifecycle.tracked # {}
    /\ lifecycle.phase = "returned"

\* ------------------------------------------------------------ tick ordering
\* every a of a sequence stands before every b
Before(seq, a, b) == \A i, j \in DOMAIN seq : (seq[i] = a /\ seq[j] = b) => i < j

\* the step that writes the post-trade metrics and the global snapshot
WritesPostTrade == tk'.completed = tk.completed + 1

C40_FoldKeepsStoredRows ==
    [][FoldStep =>
        /\ portfolio.store_exists => portfolio'.store_exists
        /\ TimestampsOf(portfolio.store) \subseteq TimestampsOf(portfolio'.store)]_vars

\* -------------------------------------------------------------- day rollover
\* C37: while ticks keep firing and store writes succeed again, every
\* snapshot in the raw log of a past day is eventually in the consolidated
\* store: a failed fold of the day is tried again, and a snapshot appended
\* to the day's log after its fold is folded later.
C37_EverySnapshotIsFoldedEventually ==
    \A d \in Days :
        (d < rollover.today /\ rollover.log[d] > 0) ~> (rollover.log[d] = 0)

\* ------------------------------------------------------- order state machine
\* the status changes of the order state machine
AllowedStatusChanges ==
    ({"new", "accepted"} \X {"partially_filled", "filled"})
        \cup {<<"partially_filled", "filled">>}
        \cup ({"new", "accepted", "partially_filled"} \X TerminalStatuses)

\* a status in TerminalStatuses is never left
TerminalIsAbsorbing ==
    [][\A o \in DOMAIN pending_orders \cap DOMAIN pending_orders' :
        pending_orders[o].status \in TerminalStatuses =>
            pending_orders'[o].status = pending_orders[o].status]_vars

\* C31: terminal statuses are absorbing: an order that is filled, cancelled,
\* rejected or expired keeps its status in every later update and pass, and
\* the only status changes are new/accepted -> partially_filled -> filled
\* and non-terminal -> cancelled, rejected or expired.
C31_TerminalStatusesAbsorbing ==
    [][\A o \in DOMAIN pending_orders \cap DOMAIN pending_orders' :
        /\ pending_orders[o].status \in TerminalStatuses =>
                pending_orders'[o].status = pending_orders[o].status
        /\ pending_orders'[o].status # pending_orders[o].status =>
                <<pending_orders[o].status, pending_orders'[o].status>> \in AllowedStatusChanges]_vars

\* ------------------------------------------------------------ active tenants
\* a tenant is active in a tick: its run_24_7 flag is set or the market is open
ActiveIn(t, market_open_now) == t \in Run247 \/ market_open_now

C38_PostHookRunsEveryTick ==
    [][tk'.n # tk.n =>
          /\ tk'.n = tk.n + 1
          /\ ret'.op = "tick" /\ ret'.ok
          /\ \A t \in teams : tk'.pre[t] = 1]_vars

\* the part of C38 the code keeps: a tick whose fetch returns nothing still
\* runs the post hook, with an empty list
PostHookRunsWithoutBars ==
    [][(ret'.op = "tick" /\ ret'.msg = "none") =>
          (ret'.ok /\ \A t \in teams : tk'.pre[t] = 1)]_vars

\* -------------------------------------------------------- the ledger's frame
\* the step is an execute() for tenant t that reached the ledger update
LedgerUpdateFor(t) ==
    /\ ret'.op = "execute" /\ ret'.team_id = t
    /\ ret'.msg \in {"Trade executed successfully",
                     "Trade executed locally; broker error",
                     "Trade execution error"}

\* C35: a tenant's cash and positions are changed only by the executor's
\* ledger update acting for that tenant: execute() for one tenant leaves
\* every other tenant's cash and positions alone, and the signal call, the
\* pre-trade snapshot loop, the broker and the reconciliation pass change
\* no tenant's cash or positions
C35_LedgerChangedOnlyByOwnExecute ==
    [][\A t \in Teams :
          (cash'[t] # cash[t] \/ positions'[t] # positions[t]) => LedgerUpdateFor(t)]_vars

\* both tenants hold a position, bought by their own execute() calls, and a
\* reconciliation pass has just run with trades on record
C35_Witness ==
    /\ \A t \in Teams : positions[t]["AAPL"] # NoPosition /\ cash[t] < InitialCash
    /\ ret.op = "reconcile"
    /\ trades.count > 0

\* C36: whenever execute() returns ok = false, for whatever reason, the
\* tenant's cash and positions are as they were before the call
C36_FailedExecuteChangesNoLedger ==
    [][(ret'.op = "execute" /\ ~ret'.ok) => UNCHANGED <<cash, positions>>]_vars

\* the refusals of C36 that return before the ledger update: closed market,
\* failed validation, failed ledger update
EarlyRefusalChangesNoLedger ==
    [][(ret'.op = "execute" /\ ~ret'.ok /\ ret'.msg # "Trade execution error") =>
          UNCHANGED <<cash, positions>>]_vars
====
